---- MODULE Spec2Model ----
(***************************************************************************)
(* A model of the krista-infinispan client library: the retry helpers of   *)
(* CacheCreator, CacheOperations and SchemaManager, and the operations     *)
(* cache_exists and create_cache of CacheCreator built on them, the        *)
(* operations put, get and delete of CacheOperations, the encoding of      *)
(* values on the wire, the cache definition CacheCreator builds from the   *)
(* settings of a cache, and the schema operations of SchemaManager.        *)
(*                                                                         *)
(* One thread of control runs one public operation at a time, except in    *)
(* SpecThreads, where two threads run retry helpers on one client.  Every  *)
(* network attempt is one step: the transport (requests.get/post) either   *)
(* returns a response with some status code or raises a transport          *)
(* exception, chosen by the environment.  Delays are whole seconds.        *)
(***************************************************************************)
EXTENDS Integers, Sequences, FiniteSets, TLC

(***************************************************************************)
(* Bounds of the model and constants of the program.                       *)
(***************************************************************************)
\* the largest max_retries a client is constructed with in the model
MaxRetriesBound == 3

\* the largest max_retries of a client that runs put, get and delete
MaxDataRetries == 1

\* the longest text among the values given to the value encoding
MaxTextLen == 2

\* the largest ttl_hours among the settings given to _build_cache_config
MaxTtlHours == 2

\* how many retry helper invocations a thread makes, one after another
MaxInvocations == 2

\* CacheCreator.__init__ defaults
DefaultMaxRetries == 3
DefaultInitialDelay == 1
DefaultMultiplier == 5
DefaultMaxDelay == 30

\* values the constructor arguments are drawn from (seconds, factors)
InitialDelays == {DefaultInitialDelay, 2, 40}
Multipliers == {1, 2, DefaultMultiplier}
MaxDelays == {10, DefaultMaxDelay}

Policies ==
    [max_retries : 0..MaxRetriesBound,
     initial_retry_delay : InitialDelays,
     retry_backoff_multiplier : Multipliers,
     max_retry_delay : MaxDelays]

DefaultPolicy ==
    [max_retries |-> DefaultMaxRetries,
     initial_retry_delay |-> DefaultInitialDelay,
     retry_backoff_multiplier |-> DefaultMultiplier,
     max_retry_delay |-> DefaultMaxDelay]

\* the retry settings of the clients that run put, get and delete
DataPolicies ==
    [max_retries : 0..MaxDataRetries,
     initial_retry_delay : {DefaultInitialDelay},
     retry_backoff_multiplier : {DefaultMultiplier},
     max_retry_delay : {DefaultMaxDelay}]

\* status codes the server answers with
StatusCodes == {200, 201, 204, 404, 500}

\* the exceptions requests.get/post raise on a transport failure, by class:
\* ConnectionError, Timeout, and any other RequestException
TransportErrors ==
    {"requests.exceptions.ConnectionError",
     "requests.exceptions.Timeout",
     "requests.exceptions.RequestException"}

\* cache names the operations are called with
CacheNames == {"test-cache", "disabled-cache", "blank-cache", "ghost-cache"}

\* the "caches" object of the configuration file: "test-cache" has settings,
\* "disabled-cache" has the same settings with "enabled" false, "blank-cache"
\* has an empty settings object, "ghost-cache" has no entry
Caches ==
    [n \in {"test-cache", "disabled-cache", "blank-cache"} |->
        IF n = "blank-cache"
        THEN << >>
        ELSE [enabled |-> n = "test-cache", memory_size |-> "50MB", ttl_hours |-> 2,
              l1_expiration_minutes |-> 30]]

VARIABLES
    policy,     \* the retry settings stored by __init__
    op,         \* the operation the caller invoked: [fn, cache_name]
    stack,      \* the frames waiting for the running retry helper, outermost first
    local,      \* the locals of the running retry helper
    trace,      \* what the transport and time.sleep saw, one record per helper invocation
    result,     \* how the operation ended: [kind, val]
    arg,        \* the value, the wire text or the deserialize flag the caller passed
    server      \* the caches the server has created and the entry it stores

vars == <<policy, op, stack, local, trace, result, arg, server>>

----------------------------------------------------------------------------
(***************************************************************************)
(* Values.                                                                 *)
(***************************************************************************)
NoOp == [fn |-> "none", cache_name |-> "none"]
NoLocal == [helper |-> "none", attempt |-> 0, delay |-> 0, last_exception |-> "None"]
NoResult == [kind |-> "none", val |-> FALSE]

Return(v) == [kind |-> "return", val |-> v]
Raise(e) == [kind |-> "raise", val |-> e]

Response(status, text) == [status_code |-> status, text |-> text]

\* an exception object: its class, its message, the status and body the message
\* quotes (0 and the empty text when none), and the exception it was raised from
Exc(type, msg, status, text, cause) ==
    [type |-> type, msg |-> msg, status_code |-> status, text |-> text, cause |-> cause]

TransportExc(kind) == Exc(kind, "", 0, << >>, "None")

\* what one call of requests.get/post does
Responds(status, text) == [ok |-> TRUE, status_code |-> status, text |-> text, exc |-> "None"]
Fails(kind) == [ok |-> FALSE, status_code |-> 0, text |-> << >>, exc |-> kind]

\* the arguments of an operation besides the cache name (the key is "k")
NoArg == [kind |-> "none", value |-> 0, wire |-> << >>, deserialize |-> TRUE]
ValueArg(value) == [NoArg EXCEPT !.kind = "value", !.value = value]
WireArg(wire) == [NoArg EXCEPT !.kind = "wire", !.wire = wire]
FlagArg(deserialize) == [NoArg EXCEPT !.kind = "flag", !.deserialize = deserialize]

\* the entry the server stores under the key: the body of the PUT it accepted
\* and, for reference, the value the client was putting
NoEntry == [present |-> FALSE, cache_name |-> "none", body |-> << >>, value |-> 0]
Entry(cache_name, body, value) ==
    [present |-> TRUE, cache_name |-> cache_name, body |-> body, value |-> value]

\* the schema names the schema operations are called with
SchemaNames == {"cache_entry.proto", "other.proto"}

NoServer == [caches |-> {}, entry |-> NoEntry, schemas |-> {}]

Min(a, b) == IF a <= b THEN a ELSE b

Last(s) == s[Len(s)]
Front(s) == SubSeq(s, 1, Len(s) - 1)

----------------------------------------------------------------------------
(***************************************************************************)
(* Texts and Python values of the value encoding pipeline.  A text is a    *)
(* sequence of code points, a byte string a sequence of numbers 0..255.    *)
(***************************************************************************)
\* the printable ASCII characters, from code point 32 on (the grave accent,
\* which a string cannot hold, by name)
Ascii ==
    <<" ", "!", "\"", "#", "$", "%", "&", "'", "(", ")", "*", "+", ",", "-", ".", "/",
      "0", "1", "2", "3", "4", "5", "6", "7", "8", "9", ":", ";", "<", "=", ">", "?",
      "@", "A", "B", "C", "D", "E", "F", "G", "H", "I", "J", "K", "L", "M", "N", "O",
      "P", "Q", "R", "S", "T", "U", "V", "W", "X", "Y", "Z", "[", "\\", "]", "^", "_",
      "grave", "a", "b", "c", "d", "e", "f", "g", "h", "i", "j", "k", "l", "m", "n", "o",
      "p", "q", "r", "s", "t", "u", "v", "w", "x", "y", "z", "{", "|", "}", "~">>

Ord(ch) == 31 + CHOOSE i \in 1..Len(Ascii) : Ascii[i] = ch

\* the text written as a tuple of characters
T(chars) == [i \in 1..Len(chars) |-> Ord(chars[i])]

\* bodies the server answers with
OKText == T(<<"O", "K">>)
ErrorText ==
    T(<<"I", "n", "t", "e", "r", "n", "a", "l", " ", "S", "e", "r", "v", "e", "r", " ",
        "E", "r", "r", "o", "r">>)
ResponseTexts == {OKText, ErrorText}

RECURSIVE Concat(_)
\* the concatenation of a sequence of sequences
Concat(ss) == IF ss = << >> THEN << >> ELSE Head(ss) \o Concat(Tail(ss))

Drop(s, n) == SubSeq(s, n + 1, Len(s))

\* Python values: str (a text), int, bool, None, list (a sequence of values),
\* dict (a sequence of <<key text, value>> pairs with distinct keys, in
\* insertion order) and an object json cannot serialize
PyStr(text) == [t |-> "str", v |-> text]
PyInt(n) == [t |-> "int", v |-> n]
PyBool(b) == [t |-> "bool", v |-> b]
PyNone == [t |-> "None", v |-> << >>]
PyList(items) == [t |-> "list", v |-> items]
PyDict(pairs) == [t |-> "dict", v |-> pairs]
PyObject == [t |-> "object", v |-> 0]

Keys(pairs) == {pairs[i][1] : i \in 1..Len(pairs)}

\* d[key] of a dict given by its pairs
Lookup(pairs, key) == pairs[CHOOSE i \in 1..Len(pairs) : pairs[i][1] = key][2]

RECURSIVE PyEq(_, _)
\* Python's == on these values (bool and int are not mixed in the model)
PyEq(a, b) ==
    /\ a.t = b.t
    /\ CASE a.t \in {"str", "int", "bool", "None", "object"} -> a.v = b.v
         [] a.t = "list" ->
                /\ Len(a.v) = Len(b.v)
                /\ \A i \in 1..Len(a.v) : PyEq(a.v[i], b.v[i])
         [] a.t = "dict" ->
                /\ Keys(a.v) = Keys(b.v)
                /\ \A k \in Keys(a.v) : PyEq(Lookup(a.v, k), Lookup(b.v, k))

\* the outcome of a library call: a value, or an exception of a class
Ok(v) == [ok |-> TRUE, val |-> v, exc |-> "None"]
Err(class) == [ok |-> FALSE, val |-> PyNone, exc |-> class]

(***************************************************************************)
(* str.encode('utf-8') and bytes.decode('utf-8').                          *)
(***************************************************************************)
Utf8Char(cp) ==
    IF cp < 128 THEN <<cp>>
    ELSE IF cp < 2048 THEN <<192 + (cp \div 64), 128 + (cp % 64)>>
    ELSE IF cp < 65536
         THEN <<224 + (cp \div 4096), 128 + ((cp \div 64) % 64), 128 + (cp % 64)>>
         ELSE <<240 + (cp \div 262144), 128 + ((cp \div 4096) % 64),
                128 + ((cp \div 64) % 64), 128 + (cp % 64)>>

Utf8Encode(text) == Concat([i \in 1..Len(text) |-> Utf8Char(text[i])])

IsCont(bytes, i) == i <= Len(bytes) /\ bytes[i] \in 128..191

RECURSIVE Utf8Decode(_)
\* Ok(text), or Err("UnicodeDecodeError") on a malformed sequence
Utf8Decode(bytes) ==
    IF bytes = << >> THEN Ok(<< >>)
    ELSE LET b == bytes[1]
             n == IF b < 128 THEN 1
                  ELSE IF b \in 194..223 /\ IsCont(bytes, 2) THEN 2
                  ELSE IF /\ b \in 224..239
                          /\ IsCont(bytes, 2) /\ IsCont(bytes, 3)
                          /\ (b = 224 => bytes[2] >= 160)
                          /\ (b = 237 => bytes[2] <= 159) THEN 3
                  ELSE IF /\ b \in 240..244
                          /\ IsCont(bytes, 2) /\ IsCont(bytes, 3) /\ IsCont(bytes, 4)
                          /\ (b = 240 => bytes[2] >= 144)
                          /\ (b = 244 => bytes[2] <= 143) THEN 4
                  ELSE 0
             cp == CASE n = 1 -> b
                     [] n = 2 -> (b - 192) * 64 + (bytes[2] - 128)
                     [] n = 3 -> (b - 224) * 4096 + (bytes[2] - 128) * 64 + (bytes[3] - 128)
                     [] n = 4 -> (b - 240) * 262144 + (bytes[2] - 128) * 4096
                                 + (bytes[3] - 128) * 64 + (bytes[4] - 128)
                     [] OTHER -> 0
         IN IF n = 0 THEN Err("UnicodeDecodeError")
            ELSE LET rest == Utf8Decode(Drop(bytes, n))
                 IN IF rest.ok THEN Ok(<<cp>> \o rest.val) ELSE rest

(***************************************************************************)
(* base64.b64encode and base64.b64decode (validate=False).                 *)
(***************************************************************************)
\* the character of a 6-bit value and back; 64 for a character outside the
\* alphabet
B64Char(x) ==
    IF x < 26 THEN 65 + x
    ELSE IF x < 52 THEN 97 + (x - 26)
    ELSE IF x < 62 THEN 48 + (x - 52)
    ELSE IF x = 62 THEN 43 ELSE 47

B64Value(c) ==
    IF c \in 65..90 THEN c - 65
    ELSE IF c \in 97..122 THEN c - 97 + 26
    ELSE IF c \in 48..57 THEN c - 48 + 52
    ELSE IF c = 43 THEN 62
    ELSE IF c = 47 THEN 63 ELSE 64

B64Pad == 61

RECURSIVE b64encode(_)
b64encode(bytes) ==
    CASE Len(bytes) = 0 -> << >>
      [] Len(bytes) = 1 ->
            <<B64Char(bytes[1] \div 4), B64Char((bytes[1] % 4) * 16), B64Pad, B64Pad>>
      [] Len(bytes) = 2 ->
            <<B64Char(bytes[1] \div 4),
              B64Char((bytes[1] % 4) * 16 + (bytes[2] \div 16)),
              B64Char((bytes[2] % 16) * 4), B64Pad>>
      [] OTHER ->
            <<B64Char(bytes[1] \div 4),
              B64Char((bytes[1] % 4) * 16 + (bytes[2] \div 16)),
              B64Char((bytes[2] % 16) * 4 + (bytes[3] \div 64)),
              B64Char(bytes[3] % 64)>> \o b64encode(Drop(bytes, 3))

RECURSIVE SextetBytes(_)
\* the bytes of a sequence of 6-bit values: three of every four, and one or
\* two of a last group of two or three
SextetBytes(x) ==
    CASE Len(x) < 2 -> << >>
      [] Len(x) = 2 -> <<x[1] * 4 + (x[2] \div 16)>>
      [] Len(x) = 3 -> <<x[1] * 4 + (x[2] \div 16), (x[2] % 16) * 16 + (x[3] \div 4)>>
      [] OTHER ->
            <<x[1] * 4 + (x[2] \div 16), (x[2] % 16) * 16 + (x[3] \div 4),
              (x[3] % 4) * 64 + x[4]>> \o SextetBytes(Drop(x, 4))

RECURSIVE B64Scan(_, _, _, _)
\* binascii.a2b_base64 without strict mode, from character i on, with the
\* 6-bit values x read so far and pads padding characters in a row:
\* characters outside the alphabet are skipped, padding that completes a
\* group ends the data, and a group left incomplete is an error
B64Scan(s, i, x, pads) ==
    IF i > Len(s)
    THEN IF Len(x) % 4 = 0 THEN Ok(SextetBytes(x)) ELSE Err("binascii.Error")
    ELSE IF s[i] = B64Pad
         THEN IF Len(x) % 4 >= 2
              THEN IF (Len(x) % 4) + pads + 1 >= 4
                   THEN Ok(SextetBytes(x))
                   ELSE B64Scan(s, i + 1, x, pads + 1)
              ELSE B64Scan(s, i + 1, x, pads)
         ELSE IF B64Value(s[i]) = 64
              THEN B64Scan(s, i + 1, x, pads)
              ELSE B64Scan(s, i + 1, Append(x, B64Value(s[i])), 0)

\* Ok(bytes) or Err("binascii.Error")
b64decode(bytes) == B64Scan(bytes, 1, << >>, 0)

(***************************************************************************)
(* json.dumps and json.loads with their default arguments.  dumps is       *)
(* given texts of printable ASCII, integers, booleans, None, lists and     *)
(* dicts with string keys; loads is not given \u escapes, fractions,       *)
(* exponents, NaN or Infinity.                                             *)
(***************************************************************************)
Quote == 34
Backslash == 92

RECURSIVE Digits(_)
Digits(n) == IF n < 10 THEN <<48 + n>> ELSE Digits(n \div 10) \o <<48 + (n % 10)>>

JsonEscape(c) == IF c \in {Quote, Backslash} THEN <<Backslash, c>> ELSE <<c>>

JsonString(text) ==
    <<Quote>> \o Concat([i \in 1..Len(text) |-> JsonEscape(text[i])]) \o <<Quote>>

RECURSIVE Join(_, _)
\* sep.join(parts)
Join(parts, sep) ==
    IF Len(parts) = 0 THEN << >>
    ELSE IF Len(parts) = 1 THEN parts[1]
    ELSE parts[1] \o sep \o Join(Tail(parts), sep)

RECURSIVE Serializable(_)
\* json.dumps raises TypeError on an object it has no encoding for
Serializable(v) ==
    CASE v.t = "object" -> FALSE
      [] v.t = "list" -> \A i \in 1..Len(v.v) : Serializable(v.v[i])
      [] v.t = "dict" -> \A i \in 1..Len(v.v) : Serializable(v.v[i][2])
      [] OTHER -> TRUE

RECURSIVE JsonText(_)
JsonText(v) ==
    CASE v.t = "str" -> JsonString(v.v)
      [] v.t = "int" -> IF v.v < 0 THEN <<45>> \o Digits(0 - v.v) ELSE Digits(v.v)
      [] v.t = "bool" -> IF v.v THEN T(<<"t", "r", "u", "e">>)
                                ELSE T(<<"f", "a", "l", "s", "e">>)
      [] v.t = "None" -> T(<<"n", "u", "l", "l">>)
      [] v.t = "list" ->
            <<91>> \o Join([i \in 1..Len(v.v) |-> JsonText(v.v[i])], <<44, 32>>) \o <<93>>
      [] v.t = "dict" ->
            <<123>>
            \o Join([i \in 1..Len(v.v) |->
                        JsonString(v.v[i][1]) \o <<58, 32>> \o JsonText(v.v[i][2])],
                    <<44, 32>>)
            \o <<125>>

\* Ok(text) or Err("TypeError")
json_dumps(v) == IF Serializable(v) THEN Ok(JsonText(v)) ELSE Err("TypeError")

\* a parse step: the value read and the position after it, or a failure
Parsed(v, next) == [ok |-> TRUE, val |-> v, next |-> next]
NoParse == [ok |-> FALSE, val |-> PyNone, next |-> 0]

IsDigit(s, i) == i <= Len(s) /\ s[i] \in 48..57

RECURSIVE SkipWs(_, _)
\* the position of the first character from i on that is not JSON whitespace
SkipWs(s, i) ==
    IF i <= Len(s) /\ s[i] \in {32, 9, 10, 13} THEN SkipWs(s, i + 1) ELSE i

StartsWith(s, i, word) ==
    /\ i + Len(word) - 1 <= Len(s)
    /\ SubSeq(s, i, i + Len(word) - 1) = word

\* the character of a backslash escape: \" \\ \/ \b \f \n \r \t
JsonUnescape ==
    (34 :> 34) @@ (92 :> 92) @@ (47 :> 47) @@ (98 :> 8) @@ (102 :> 12)
    @@ (110 :> 10) @@ (114 :> 13) @@ (116 :> 9)

RECURSIVE ScanString(_, _, _)
\* the string whose opening quote is before position i, with acc read so far
ScanString(s, i, acc) ==
    IF i > Len(s) THEN NoParse
    ELSE IF s[i] = Quote THEN Parsed(acc, i + 1)
    ELSE IF s[i] = Backslash
         THEN IF i + 1 <= Len(s) /\ s[i + 1] \in DOMAIN JsonUnescape
              THEN ScanString(s, i + 2, Append(acc, JsonUnescape[s[i + 1]]))
              ELSE NoParse
    ELSE IF s[i] < 32 THEN NoParse
    ELSE ScanString(s, i + 1, Append(acc, s[i]))

RECURSIVE ScanDigits(_, _, _)
ScanDigits(s, i, n) ==
    IF IsDigit(s, i) THEN ScanDigits(s, i + 1, 10 * n + (s[i] - 48)) ELSE Parsed(n, i)

\* the integer read, unless a fraction or an exponent follows
Integer(s, neg, d) ==
    IF d.next <= Len(s) /\ s[d.next] \in {46, 69, 101} THEN NoParse
    ELSE Parsed(PyInt(IF neg THEN 0 - d.val ELSE d.val), d.next)

\* the digits from position j on: -?(0|[1-9][0-9]*)
Unsigned(s, neg, j) ==
    IF ~IsDigit(s, j) THEN NoParse
    ELSE Integer(s, neg, IF s[j] = 48 THEN Parsed(0, j + 1) ELSE ScanDigits(s, j, 0))

ScanNumber(s, i) ==
    IF i <= Len(s) /\ s[i] = 45 THEN Unsigned(s, TRUE, i + 1) ELSE Unsigned(s, FALSE, i)

\* a dict with the pair added, a repeated key keeping its place and taking
\* the last value
WithPair(pairs, key, v) ==
    IF key \in Keys(pairs)
    THEN [i \in 1..Len(pairs) |-> IF pairs[i][1] = key THEN <<key, v>> ELSE pairs[i]]
    ELSE Append(pairs, <<key, v>>)

RECURSIVE ScanValue(_, _)
RECURSIVE ScanItems(_, _, _)
RECURSIVE ScanPairs(_, _, _)

\* after an item of a list, at the first character j that is not whitespace:
\* the closing bracket, or a comma and the next item
ItemsNext(s, items, j) ==
    IF j > Len(s) THEN NoParse
    ELSE IF s[j] = 93 THEN Parsed(PyList(items), j + 1)
    ELSE IF s[j] = 44 THEN ScanItems(s, SkipWs(s, j + 1), items)
    ELSE NoParse

\* the list goes on after the item r read
ItemsAfter(s, acc, r) ==
    IF r.ok THEN ItemsNext(s, Append(acc, r.val), SkipWs(s, r.next)) ELSE NoParse

\* the items of a list from position i on, with acc read so far
ScanItems(s, i, acc) == ItemsAfter(s, acc, ScanValue(s, i))

\* after a pair of an object, at the first character j that is not
\* whitespace: the closing brace, or a comma and the next pair
PairsNext(s, pairs, j) ==
    IF j > Len(s) THEN NoParse
    ELSE IF s[j] = 125 THEN Parsed(PyDict(pairs), j + 1)
    ELSE IF s[j] = 44 THEN ScanPairs(s, SkipWs(s, j + 1), pairs)
    ELSE NoParse

\* the object goes on after the value r of the pair with the key given
PairsAfterValue(s, acc, key, r) ==
    IF r.ok THEN PairsNext(s, WithPair(acc, key, r.val), SkipWs(s, r.next)) ELSE NoParse

\* the colon at position c and the value after it
PairsAfterColon(s, acc, key, c) ==
    IF c <= Len(s) /\ s[c] = 58
    THEN PairsAfterValue(s, acc, key, ScanValue(s, SkipWs(s, c + 1)))
    ELSE NoParse

\* the object goes on after the key k read
PairsAfterKey(s, acc, k) ==
    IF k.ok THEN PairsAfterColon(s, acc, k.val, SkipWs(s, k.next)) ELSE NoParse

\* the pairs of an object from position i on, with acc read so far
ScanPairs(s, i, acc) ==
    IF i <= Len(s) /\ s[i] = Quote
    THEN PairsAfterKey(s, acc, ScanString(s, i + 1, << >>))
    ELSE NoParse

\* a string read as a value
StringValue(r) == IF r.ok THEN Parsed(PyStr(r.val), r.next) ELSE NoParse

\* the object or the list whose opening character is before position j:
\* empty if the closing character is there
Container(s, j, closing) ==
    IF j <= Len(s) /\ s[j] = closing
    THEN Parsed(IF closing = 125 THEN PyDict(<< >>) ELSE PyList(<< >>), j + 1)
    ELSE IF closing = 125 THEN ScanPairs(s, j, << >>) ELSE ScanItems(s, j, << >>)

\* the JSON value that starts at position i
ScanValue(s, i) ==
    IF i > Len(s) THEN NoParse
    ELSE CASE s[i] = Quote -> StringValue(ScanString(s, i + 1, << >>))
           [] s[i] = 123 -> Container(s, SkipWs(s, i + 1), 125)
           [] s[i] = 91 -> Container(s, SkipWs(s, i + 1), 93)
           [] StartsWith(s, i, T(<<"n", "u", "l", "l">>)) -> Parsed(PyNone, i + 4)
           [] StartsWith(s, i, T(<<"t", "r", "u", "e">>)) -> Parsed(PyBool(TRUE), i + 4)
           [] StartsWith(s, i, T(<<"f", "a", "l", "s", "e">>)) -> Parsed(PyBool(FALSE), i + 5)
           [] OTHER -> ScanNumber(s, i)

\* the document read, if nothing but whitespace follows it
Document(text, r) ==
    IF r.ok /\ SkipWs(text, r.next) > Len(text) THEN Ok(r.val)
    ELSE Err("JSONDecodeError")

\* Ok(value), or Err("JSONDecodeError") when the text is not one JSON
\* document
json_loads(text) == Document(text, ScanValue(text, SkipWs(text, 1)))

(***************************************************************************)
(* CacheOperations: the value encoding pipeline.                           *)
(***************************************************************************)
\* _encode_value from json_str.encode('utf-8') on
encode_text(json_str) ==
    IF json_str.ok THEN Ok(b64encode(Utf8Encode(json_str.val))) ELSE json_str

\* an _encode_value that leaves out the base64 step
encode_value_plain(value) ==
    IF value.t = "str" THEN Ok(value.v) ELSE json_dumps(value)

\* an _encode_value that writes a str as a JSON string, quotes included
encode_value_quoted(value) == encode_text(json_dumps(value))

\* _encode_value: a str goes verbatim, any other value as its JSON text;
\* Ok(the base64 text of the UTF-8 bytes) or the exception re-raised
encode_value(value) ==
    encode_text(IF value.t = "str" THEN Ok(value.v) ELSE json_dumps(value))

\* the inner fallback of _decode_value: the JSON value parsed, or the text
\* itself when it is not JSON
ValueOrText(parsed, json_str) == IF parsed.ok THEN parsed.val ELSE PyStr(json_str)

decode_json_or_text(json_str) == ValueOrText(json_loads(json_str), json_str)

\* _decode_value from decoded_bytes.decode('utf-8') on
decode_text(json_str) ==
    IF json_str.ok THEN Ok(decode_json_or_text(json_str.val)) ELSE json_str

\* _decode_value from base64.b64decode on
decode_bytes(decoded_bytes) ==
    IF decoded_bytes.ok THEN decode_text(Utf8Decode(decoded_bytes.val)) ELSE decoded_bytes

\* _decode_value: Ok(value), or the exception re-raised: AttributeError for
\* a value field that is not a str, binascii.Error, UnicodeDecodeError
decode_value(encoded) ==
    IF encoded.t # "str" THEN Err("AttributeError")
    ELSE decode_bytes(b64decode(Utf8Encode(encoded.v)))

TypeKey == T(<<"_", "t", "y", "p", "e">>)
ValueKey == T(<<"v", "a", "l", "u", "e">>)
CacheEntryType ==
    T(<<"c", "a", "c", "h", "e", ".", "C", "a", "c", "h", "e", "E", "n", "t", "r", "y">>)

\* the ProtoStream envelope of an encoded value
Envelope(encoded) == PyDict(<< <<TypeKey, PyStr(CacheEntryType)>>, <<ValueKey, encoded>> >>)

\* the envelope around the outcome of _encode_value
Wrapped(encoded_value) ==
    IF encoded_value.ok THEN json_dumps(Envelope(PyStr(encoded_value.val)))
    ELSE encoded_value

\* _serialize_value: Ok(the wire text) or the exception of _encode_value
serialize_value(value) == Wrapped(encode_value(value))

\* what _deserialize_value does when json.loads raises JSONDecodeError on
\* the wire text
deserialize_unparsable(protostream_json) == Ok(PyStr(protostream_json))

\* _deserialize_value after json.loads
Unwrapped(protostream_json, protostream_obj) ==
    IF ~protostream_obj.ok THEN deserialize_unparsable(protostream_json)
    ELSE IF protostream_obj.val.t = "dict" /\ ValueKey \in Keys(protostream_obj.val.v)
         THEN decode_value(Lookup(protostream_obj.val.v, ValueKey))
         ELSE Ok(protostream_obj.val)

\* _deserialize_value: Ok(value), or an exception of _decode_value
deserialize_value(protostream_json) ==
    Unwrapped(protostream_json, json_loads(protostream_json))

----------------------------------------------------------------------------
(***************************************************************************)
(* CacheConfig.get_cache_config: caches.get(cache_name).  The result is    *)
(* the set holding the settings object, or the empty set for None.         *)
(***************************************************************************)
get_cache_config(cache_name) ==
    IF cache_name \in DOMAIN Caches THEN {Caches[cache_name]} ELSE {}

\* CacheConfig.is_cache_enabled: the "enabled" entry of the settings, and
\* False for a cache without settings or without the entry
is_cache_enabled(cache_name) ==
    \E s \in get_cache_config(cache_name) : "enabled" \in DOMAIN s /\ s.enabled

\* Python's "not cache_config": None and the empty dict are both falsy
IsFalsy(cache_config) ==
    \/ cache_config = {}
    \/ \A s \in cache_config : DOMAIN s = {}

(***************************************************************************)
(* The retry helpers of CacheCreator, CacheOperations and SchemaManager.    *)
(* All seven are the same loop around one transport call; they differ in   *)
(* the HTTP method, the arguments and the timeout of that call.            *)
(***************************************************************************)
RetryHelpers ==
    {"_cache_exists_with_retry", "_create_cache_with_retry",
     "_put_with_retry", "_get_with_retry", "_delete_with_retry",
     "_register_schema_with_retry", "_get_schema_with_retry"}

Method(helper) ==
    CASE helper \in {"_cache_exists_with_retry", "_get_with_retry",
                     "_get_schema_with_retry"} -> "GET"
      [] helper \in {"_create_cache_with_retry", "_register_schema_with_retry"} -> "POST"
      [] helper = "_put_with_retry" -> "PUT"
      [] helper = "_delete_with_retry" -> "DELETE"

\* delay = self.initial_retry_delay; last_exception = None; first loop index 0
StartLocal(helper) ==
    [helper |-> helper, attempt |-> 0, delay |-> policy.initial_retry_delay,
     last_exception |-> "None"]

\* a loop that runs once more than range(self.max_retries + 1)
InRangeOneMore(attempt) == attempt <= policy.max_retries + 1

\* for attempt in range(self.max_retries + 1)
InRange(attempt) == attempt < policy.max_retries + 1

\* a guard that also sleeps after the final attempt
ShouldRetryAfterLast(attempt) == attempt <= policy.max_retries

\* a guard that goes to the last attempt without sleeping
ShouldRetrySkipsLast(attempt) == attempt + 1 < policy.max_retries

\* if attempt < self.max_retries
ShouldRetry(attempt) == attempt < policy.max_retries

\* delay = min(delay * self.retry_backoff_multiplier, self.max_retry_delay)
NextDelay(delay) == Min(delay * policy.retry_backoff_multiplier, policy.max_retry_delay)

\* a helper that treats a 5xx response as a failure to retry
ReturnsResponseUnless5xx(o) == o.ok /\ o.status_code < 500

\* try: return requests.<method>(...): any response leaves the loop
ReturnsResponse(o) == o.ok

\* One iteration of the loop with the transport outcome o: how the iteration
\* ends ("return" the response, "continue" with the next index, or "raise"
\* last_exception after the loop), the locals afterwards, the argument of
\* time.sleep if it was called, and the value returned or raised.
helper_attempt(l, o) ==
    IF ReturnsResponse(o)
    THEN [exit |-> "return", local |-> l, slept |-> << >>,
          val |-> Response(o.status_code, o.text)]
    ELSE LET retry == ShouldRetry(l.attempt)
             l1 == [l EXCEPT !.last_exception = o.exc,
                             !.delay = IF retry THEN NextDelay(l.delay) ELSE l.delay,
                             !.attempt = l.attempt + 1]
         IN [exit |-> IF InRange(l.attempt + 1) THEN "continue" ELSE "raise",
             local |-> l1,
             slept |-> IF retry THEN <<l.delay>> ELSE << >>,
             val |-> TransportExc(l1.last_exception)]

(***************************************************************************)
(* cache_exists and create_cache, as what each does with the outcome of    *)
(* the helper it called.                                                   *)
(***************************************************************************)
\* a cache_exists that takes every 2xx status for existence
cache_exists_result_any2xx(c) ==
    IF c.kind = "return" THEN Return(c.val.status_code \in 200..299) ELSE Return(FALSE)

\* cache_exists, after _cache_exists_with_retry: status 200 is True, any other
\* status is False, and "except Exception" turns a raised failure into False
cache_exists_result(c) ==
    IF c.kind = "return" THEN Return(c.val.status_code = 200) ELSE Return(FALSE)

\* a create_cache without the configuration check
create_cache_unconfigured_unchecked(cache_name) == FALSE

\* a create_cache that refuses a cache whose settings say "enabled": false
\* the way it refuses one without settings
create_cache_unconfigured_or_disabled(cache_name) ==
    IsFalsy(get_cache_config(cache_name)) \/ ~is_cache_enabled(cache_name)

\* create_cache, the configuration check before anything else
create_cache_unconfigured(cache_name) == IsFalsy(get_cache_config(cache_name))

ValueError(cache_name) ==
    Exc("ValueError", "not found in configuration", 0, << >>, "None")

\* a create_cache that creates without looking at the existence check
create_cache_already_exists_ignored(exists) == FALSE

\* a create_cache that takes the cache for created by somebody else and
\* never posts
create_cache_already_exists_assumed(exists) == TRUE

\* create_cache, "if self.cache_exists(cache_name): return True"
create_cache_already_exists(exists) == exists

\* a create_cache that accepts every 2xx status of the POST
create_cache_result_any2xx(cache_name, c) ==
    IF c.kind = "raise"
    THEN CASE c.val.type \in {"requests.exceptions.ConnectionError",
                              "requests.exceptions.Timeout"} ->
                Raise(Exc("ConnectionError", "Cannot connect to Infinispan server",
                          0, << >>, c.val.type))
           [] OTHER ->
                Raise(Exc("Exception", "Request failed while creating cache",
                          0, << >>, c.val.type))
    ELSE IF c.val.status_code \in 200..299
         THEN Return(TRUE)
         ELSE Raise(Exc("Exception", "Failed to create cache",
                        c.val.status_code, c.val.text, "None"))

\* a create_cache whose "except RequestException" clause comes before the
\* Timeout clause, so that a timeout is raised as a generic Exception
create_cache_result_timeout_generic(cache_name, c) ==
    IF c.kind = "raise"
    THEN CASE c.val.type = "requests.exceptions.ConnectionError" ->
                Raise(Exc("ConnectionError", "Cannot connect to Infinispan server",
                          0, << >>, c.val.type))
           [] OTHER ->
                Raise(Exc("Exception", "Request failed while creating cache",
                          0, << >>, c.val.type))
    ELSE IF c.val.status_code \in {200, 201}
         THEN Return(TRUE)
         ELSE Raise(Exc("Exception", "Failed to create cache",
                        c.val.status_code, c.val.text, "None"))

\* create_cache, after _create_cache_with_retry: the except clauses in their
\* order, then the status check
create_cache_result(cache_name, c) ==
    IF c.kind = "raise"
    THEN CASE c.val.type = "requests.exceptions.ConnectionError" ->
                Raise(Exc("ConnectionError", "Cannot connect to Infinispan server",
                          0, << >>, c.val.type))
           [] c.val.type = "requests.exceptions.Timeout" ->
                Raise(Exc("ConnectionError", "Connection timeout to Infinispan server",
                          0, << >>, c.val.type))
           [] OTHER ->
                Raise(Exc("Exception", "Request failed while creating cache",
                          0, << >>, c.val.type))
    ELSE IF c.val.status_code \in {200, 201}
         THEN Return(TRUE)
         ELSE Raise(Exc("Exception", "Failed to create cache",
                        c.val.status_code, c.val.text, "None"))

(***************************************************************************)
(* CacheOperations: _cache_exists, _ensure_cache_exists, put, get and      *)
(* delete, as what each does with the outcome of the call it made.         *)
(***************************************************************************)
DataOperations == {"put", "get", "delete"}

\* get and delete checking existence the way put does
precheck_provisions(fn) == "_ensure_cache_exists"

\* the check an operation starts with: put calls _ensure_cache_exists, get
\* and delete call _cache_exists
precheck(fn) == IF fn = "put" THEN "_ensure_cache_exists" ELSE "_cache_exists"

\* a _cache_exists that reports every cache as existing
cache_exists_guarded_present(c) == Return(TRUE)

\* _cache_exists: what cache_creator.cache_exists returned, and False when
\* it raised
cache_exists_guarded(c) == IF c.kind = "return" THEN c ELSE Return(FALSE)

\* an _ensure_cache_exists that takes the cache for existing when
\* create_cache failed
ensure_cache_exists_result_trusting(c) == Return(TRUE)

\* an _ensure_cache_exists without its "except Exception" clause
ensure_cache_exists_result_reraises(c) ==
    IF c.kind = "return" THEN Return(c.val = TRUE) ELSE c

\* _ensure_cache_exists, after create_cache: True if it returned True, and
\* False when it raised
ensure_cache_exists_result(c) ==
    IF c.kind = "return" THEN Return(c.val = TRUE) ELSE Return(FALSE)

\* a put, get or delete that goes on whatever its check said
check_passed_always(c) == TRUE

\* "if not self._ensure_cache_exists(cache_name)" of put and
\* "if not self._cache_exists(cache_name)" of get and delete, negated; a
\* check that raised ends the operation in its "except Exception" clause
check_passed(c) == c.kind = "return" /\ c.val = TRUE

\* a put that takes only status 200 for success
put_result_only200(c) ==
    IF c.kind = "return" THEN Return(c.val.status_code = 200) ELSE Return(FALSE)

\* a put that reports success whatever became of its PUT
put_result_optimistic(c) == Return(TRUE)

\* put, after _put_with_retry: status 200, 201 or 204 is True, any other
\* status is False, and so is a raised failure
put_result(c) ==
    IF c.kind = "return"
    THEN Return(c.val.status_code \in {200, 201, 204})
    ELSE Return(FALSE)

\* get, "except Exception": a failure to deserialize gives None
ValueOrNone(value) == IF value.ok THEN Return(value.val) ELSE Return(PyNone)

\* a get that returns the raw text whatever the flag
get_result_raw(c, deserialize) ==
    IF c.kind = "return" /\ c.val.status_code = 200
    THEN Return(PyStr(c.val.text))
    ELSE Return(PyNone)

\* get, after _get_with_retry: status 200 gives the deserialized value, or
\* the response text as it is when deserialize is False; 404, any other
\* status, a raised failure and a failure to deserialize give None
get_result(c, deserialize) ==
    IF c.kind = "raise" THEN Return(PyNone)
    ELSE IF c.val.status_code = 200
         THEN IF deserialize
              THEN ValueOrNone(deserialize_value(c.val.text))
              ELSE Return(PyStr(c.val.text))
         ELSE IF c.val.status_code = 404
              THEN Return(PyNone)
              ELSE Return(PyNone)

\* a delete that reports a key that was not there as a failure
delete_result_404_fails(c) ==
    IF c.kind = "return" THEN Return(c.val.status_code \in {200, 204}) ELSE Return(FALSE)

\* delete, after _delete_with_retry: status 200 or 204 is True, 404 is True,
\* any other status is False, and so is a raised failure
delete_result(c) ==
    IF c.kind = "raise" THEN Return(FALSE)
    ELSE IF c.val.status_code \in {200, 204}
         THEN Return(TRUE)
         ELSE IF c.val.status_code = 404
              THEN Return(TRUE)
              ELSE Return(FALSE)

(***************************************************************************)
(* SchemaManager: get_schema, schema_exists, register_schema and           *)
(* register_cache_entry_schema, after the retry helper has returned or     *)
(* raised.                                                                 *)
(***************************************************************************)
SchemaOperations ==
    {"get_schema", "schema_exists", "register_schema", "register_cache_entry_schema"}

\* schema_name = "cache_entry.proto"
CacheEntrySchema == "cache_entry.proto"

\* a get_schema that takes every status below 300 for the schema
get_schema_result_any2xx(c) ==
    IF c.kind = "return" /\ c.val.status_code < 300 THEN Return(PyStr(c.val.text))
    ELSE Return(PyNone)

\* get_schema, after _get_schema_with_retry: the text on status 200, None
\* on 404, on any other status and on a raised failure
get_schema_result(c) ==
    IF c.kind = "raise" THEN Return(PyNone)
    ELSE IF c.val.status_code = 200
         THEN Return(PyStr(c.val.text))
         ELSE IF c.val.status_code = 404
              THEN Return(PyNone)
              ELSE Return(PyNone)

\* schema_exists: self.get_schema(schema_name) is not None
schema_exists_result(c) == Return(c.val.t # PyNone.t)

\* a register_schema that lets the failure of the helper through
register_schema_result_reraises(c) ==
    IF c.kind = "raise" THEN c ELSE Return(c.val.status_code \in {200, 201, 204})

\* register_schema, after _register_schema_with_retry: status 200, 201 or
\* 204 is True, any other status is False, and so is a raised failure
register_schema_result(c) ==
    IF c.kind = "raise" THEN Return(FALSE)
    ELSE IF c.val.status_code \in {200, 201, 204}
         THEN Return(TRUE)
         ELSE Return(FALSE)

\* register_cache_entry_schema: if self.schema_exists(schema_name)
schema_registered(c) == c.val

\* the helper that carries out a data operation
DataHelper(fn) ==
    CASE fn = "put" -> "_put_with_retry"
      [] fn = "get" -> "_get_with_retry"
      [] fn = "delete" -> "_delete_with_retry"

\* what a data operation returns without having reached its helper
DataFailure(fn) == IF fn = "get" THEN Return(PyNone) ELSE Return(FALSE)

Frame(fn, at, cache_name) == [fn |-> fn, at |-> at, cache_name |-> cache_name]

\* the state of the thread after a call or a return: the frames left, the
\* retry helper to run next ("none" when the operation is over), the result
Thread(frames, helper, res) == [stack |-> frames, helper |-> helper, result |-> res]

\* an operation that takes the existence of its cache for granted and
\* starts with the request it is about
enter_unchecked(fn, cache_name) ==
    [exc |-> "None",
     frames |-> <<Frame(fn, IF fn = "create_cache" THEN "post" ELSE "request", cache_name)>>,
     helper |-> IF fn = "create_cache" THEN "_create_cache_with_retry" ELSE DataHelper(fn)]

\* How fn(cache_name) begins: the exception it raises before any request
\* ("None" if it raises none), or else the frames it and its callees push
\* and the retry helper that runs first.
Enter(fn, cache_name) ==
    LET exists == <<Frame("cache_exists", "get", cache_name)>>
        begin(frames, helper) == [exc |-> "None", frames |-> frames, helper |-> helper]
    IN CASE fn \in RetryHelpers ->
                begin(<< >>, fn)
         [] fn = "cache_exists" ->
                begin(exists, "_cache_exists_with_retry")
         [] fn = "create_cache" ->
                IF create_cache_unconfigured(cache_name)
                THEN [exc |-> "ValueError", frames |-> << >>, helper |-> "none"]
                ELSE begin(<<Frame("create_cache", "cache_exists", cache_name)>> \o exists,
                           "_cache_exists_with_retry")
         [] fn \in {"_cache_exists", "_ensure_cache_exists"} ->
                begin(<<Frame(fn, "cache_exists", cache_name)>> \o exists,
                      "_cache_exists_with_retry")
         [] fn = "get_schema" ->
                begin(<<Frame("get_schema", "get", cache_name)>>, "_get_schema_with_retry")
         [] fn = "schema_exists" ->
                begin(<<Frame("schema_exists", "get_schema", cache_name),
                        Frame("get_schema", "get", cache_name)>>,
                      "_get_schema_with_retry")
         [] fn = "register_schema" ->
                begin(<<Frame("register_schema", "post", cache_name)>>,
                      "_register_schema_with_retry")
         [] fn = "register_cache_entry_schema" ->
                begin(<<Frame("register_cache_entry_schema", "schema_exists", CacheEntrySchema),
                        Frame("schema_exists", "get_schema", CacheEntrySchema),
                        Frame("get_schema", "get", CacheEntrySchema)>>,
                      "_get_schema_with_retry")
         [] fn \in DataOperations ->
                begin(<<Frame(fn, "check", cache_name),
                        Frame(precheck(fn), "cache_exists", cache_name)>> \o exists,
                      "_cache_exists_with_retry")

RECURSIVE Resume(_, _)
\* The completion c of a callee comes back to the innermost waiting frame.
Resume(frames, c) ==
    IF frames = << >>
    THEN Thread(<< >>, "none", c)
    ELSE LET top == Last(frames)
             rest == Front(frames)
         IN CASE top.fn = "cache_exists" ->
                    Resume(rest, cache_exists_result(c))
              [] top.fn = "create_cache" /\ top.at = "cache_exists" ->
                    IF c.kind = "raise"
                    THEN Resume(rest, c)
                    ELSE IF create_cache_already_exists(c.val)
                         THEN Resume(rest, Return(TRUE))
                         ELSE Thread(Append(rest, Frame("create_cache", "post", top.cache_name)),
                                     "_create_cache_with_retry", NoResult)
              [] top.fn = "create_cache" /\ top.at = "post" ->
                    Resume(rest, create_cache_result(top.cache_name, c))
              [] top.fn = "_cache_exists" ->
                    Resume(rest, cache_exists_guarded(c))
              [] top.fn = "_ensure_cache_exists" /\ top.at = "cache_exists" ->
                    IF c.kind = "raise"
                    THEN Resume(rest, Return(FALSE))
                    ELSE IF c.val
                         THEN Resume(rest, Return(TRUE))
                         ELSE LET create == Enter("create_cache", top.cache_name)
                                  waiting == Append(rest, Frame("_ensure_cache_exists",
                                                                "create_cache",
                                                                top.cache_name))
                              IN IF create.exc # "None"
                                 THEN Resume(waiting, Raise(ValueError(top.cache_name)))
                                 ELSE Thread(waiting \o create.frames, create.helper,
                                             NoResult)
              [] top.fn = "_ensure_cache_exists" /\ top.at = "create_cache" ->
                    Resume(rest, ensure_cache_exists_result(c))
              [] top.fn \in DataOperations /\ top.at = "check" ->
                    IF ~check_passed(c)
                    THEN Resume(rest, DataFailure(top.fn))
                    ELSE IF top.fn = "put" /\ ~serialize_value(arg.value).ok
                         THEN Resume(rest, Return(FALSE))
                         ELSE Thread(Append(rest, Frame(top.fn, "request", top.cache_name)),
                                     DataHelper(top.fn), NoResult)
              [] top.fn = "put" /\ top.at = "request" ->
                    Resume(rest, put_result(c))
              [] top.fn = "get" /\ top.at = "request" ->
                    Resume(rest, get_result(c, arg.deserialize))
              [] top.fn = "delete" /\ top.at = "request" ->
                    Resume(rest, delete_result(c))
              [] top.fn = "get_schema" ->
                    Resume(rest, get_schema_result(c))
              [] top.fn = "schema_exists" ->
                    Resume(rest, schema_exists_result(c))
              [] top.fn = "register_schema" ->
                    Resume(rest, register_schema_result(c))
              [] top.fn = "register_cache_entry_schema" /\ top.at = "schema_exists" ->
                    IF schema_registered(c)
                    THEN Resume(rest, Return(TRUE))
                    ELSE Thread(rest \o <<Frame("register_cache_entry_schema",
                                                "register_schema", top.cache_name),
                                          Frame("register_schema", "post", top.cache_name)>>,
                                "_register_schema_with_retry", NoResult)
              [] top.fn = "register_cache_entry_schema" /\ top.at = "register_schema" ->
                    Resume(rest, c)

\* The call of fn(cache_name) from under the frames given.
Invoke(fn, cache_name, frames) ==
    LET e == Enter(fn, cache_name)
    IN IF e.exc # "None"
       THEN Resume(frames, Raise(ValueError(cache_name)))
       ELSE Thread(frames \o e.frames, e.helper, NoResult)

(***************************************************************************)
(* What the mocks of the tests record: per helper invocation, the number   *)
(* of transport calls, how many of them failed, the arguments of           *)
(* time.sleep, and how the helper ended.                                   *)
(***************************************************************************)
NewInvocation(helper) ==
    [helper |-> helper, method |-> Method(helper),
     call_count |-> 0,          \* calls of requests.<method>
     failures |-> 0,            \* how many of them raised
     last_call |-> Fails("None"), \* what the latest of them did
     sleep_calls |-> << >>,     \* the arguments of time.sleep, in order
     sleep_at |-> << >>,        \* call_count at each call of time.sleep
     exit |-> "running",        \* "running", or how the helper ended
     status_code |-> 0, text |-> << >>, \* the response it returned
     exc |-> "None"]            \* the class of the exception it raised

Recorded(inv, o, h) ==
    [inv EXCEPT !.call_count = @ + 1,
                !.failures = IF o.ok THEN @ ELSE @ + 1,
                !.last_call = o,
                !.sleep_calls = @ \o h.slept,
                !.sleep_at = @ \o [i \in 1..Len(h.slept) |-> inv.call_count + 1],
                !.exit = IF h.exit = "continue" THEN "running" ELSE h.exit,
                !.status_code = IF h.exit = "return" THEN h.val.status_code ELSE 0,
                !.text = IF h.exit = "return" THEN h.val.text ELSE << >>,
                !.exc = IF h.exit = "raise" THEN h.val.type ELSE "None"]

(***************************************************************************)
(* The server, as far as the operations can tell: a POST answered with     *)
(* 200 or 201 has created the cache, a PUT answered with 200, 201 or 204   *)
(* has stored the body, a DELETE answered with 200 or 204 has removed the  *)
(* entry.  A schema GET answered with 200 has shown the schema, one       *)
(* answered with 404 has shown it is not there, and a schema POST         *)
(* answered with 200, 201 or 204 has registered it.  Requests by a helper  *)
(* called on its own go to no cache and no schema.                         *)
(***************************************************************************)
ServerAfter(srv, helper, cache_name, o, body, value) ==
    IF ~o.ok \/ cache_name \notin CacheNames \cup SchemaNames THEN srv
    ELSE CASE /\ helper = "_get_schema_with_retry" /\ o.status_code = 200 ->
                [srv EXCEPT !.schemas = @ \cup {cache_name}]
           [] /\ helper = "_get_schema_with_retry" /\ o.status_code = 404 ->
                [srv EXCEPT !.schemas = @ \ {cache_name}]
           [] /\ helper = "_register_schema_with_retry"
              /\ o.status_code \in {200, 201, 204} ->
                [srv EXCEPT !.schemas = @ \cup {cache_name}]
           [] helper = "_create_cache_with_retry" /\ o.status_code \in {200, 201} ->
                [srv EXCEPT !.caches = @ \cup {cache_name}]
           [] helper = "_put_with_retry" /\ o.status_code \in {200, 201, 204} ->
                [srv EXCEPT !.entry = Entry(cache_name, body, value)]
           [] /\ helper = "_delete_with_retry" /\ o.status_code \in {200, 204}
              /\ srv.entry.cache_name = cache_name ->
                [srv EXCEPT !.entry = NoEntry]
           [] OTHER -> srv

\* the cache the running helper's request is for
Target == IF stack = << >> THEN "none" ELSE Last(stack).cache_name

\* the data of the PUT of put: json_value
PutBody == IF op.fn = "put" THEN serialize_value(arg.value).val ELSE << >>

----------------------------------------------------------------------------
Init ==
    /\ policy \in Policies
    /\ op = NoOp
    /\ stack = << >>
    /\ local = NoLocal
    /\ trace = << >>
    /\ result = NoResult
    /\ arg = NoArg
    /\ server = NoServer

Idle == op = NoOp

\* the caller invokes fn(cache_name) on the client
Call(fn, cache_name) ==
    /\ Idle
    /\ LET t == Invoke(fn, cache_name, << >>)
       IN /\ op' = [fn |-> fn, cache_name |-> cache_name]
          /\ stack' = t.stack
          /\ result' = t.result
          /\ local' = IF t.helper = "none" THEN NoLocal ELSE StartLocal(t.helper)
          /\ trace' = IF t.helper = "none" THEN << >> ELSE <<NewInvocation(t.helper)>>
    /\ arg' = NoArg
    /\ UNCHANGED <<policy, server>>

CallCacheExists == \E n \in CacheNames : Call("cache_exists", n)
CallCreateCache == \E n \in CacheNames : Call("create_cache", n)
\* the helpers are called with a url; the tests call them directly
CallRetryHelper == \E h \in RetryHelpers : Call(h, "url")

\* one transport call of the running helper: it returns a response with the
\* status and text given (ok), or raises the exception given
Attempt(ok, status, text, exc) ==
    /\ local.helper # "none"
    /\ LET o == IF ok THEN Responds(status, text) ELSE Fails(exc)
           h == helper_attempt(local, o)
           t == [trace EXCEPT ![Len(trace)] = Recorded(@, o, h)]
       IN IF h.exit = "continue"
          THEN /\ local' = h.local
               /\ trace' = t
               /\ server' = server
               /\ UNCHANGED <<stack, result>>
          ELSE LET c == IF h.exit = "return" THEN Return(h.val) ELSE Raise(h.val)
                   r == Resume(stack, c)
               IN /\ stack' = r.stack
                  /\ result' = r.result
                  /\ local' = IF r.helper = "none" THEN NoLocal ELSE StartLocal(r.helper)
                  /\ trace' = IF r.helper = "none" THEN t
                              ELSE Append(t, NewInvocation(r.helper))
                  /\ server' = ServerAfter(server, local.helper, Target, o,
                                           PutBody, arg.value)
    /\ UNCHANGED <<policy, op, arg>>

TransportResponds ==
    \E s \in StatusCodes, x \in ResponseTexts : Attempt(TRUE, s, x, "None")
TransportFails ==
    \E k \in TransportErrors : Attempt(FALSE, 0, << >>, k)

\* the caller has the result; the client is ready for the next operation
Finish ==
    /\ ~Idle
    /\ result.kind # "none"
    /\ op' = NoOp
    /\ trace' = << >>
    /\ result' = NoResult
    /\ arg' = NoArg
    /\ UNCHANGED <<policy, stack, local, server>>

Next ==
    \/ CallCacheExists
    \/ CallCreateCache
    \/ CallRetryHelper
    \/ TransportResponds
    \/ TransportFails
    \/ Finish

Spec == Init /\ [][Next]_vars

----------------------------------------------------------------------------
(***************************************************************************)
(* The data operations: a client with retry settings from DataPolicies     *)
(* runs put, get, delete and _ensure_cache_exists, one after another,      *)
(* against the same server.                                                *)
(***************************************************************************)
Hello == T(<<"h", "e", "l", "l", "o">>)

\* the values put: a string, and an object json.dumps has no encoding for
PutValues == <<PyStr(Hello), PyObject>>

\* the caches the data operations are called on: one with settings in the
\* configuration and one without
DataCacheNames == {"test-cache", "ghost-cache"}

\* the wire text of an entry whose value field holds the text given
EntryText(encoded) == JsonText(Envelope(PyStr(encoded)))

\* bodies the server answers a key GET with, besides the entry it stores:
\* a text that is not JSON, the entry of "hello", an entry whose value is
\* not base64, and a JSON text that is no entry
GetTexts ==
    <<OKText,
      EntryText(b64encode(Utf8Encode(Hello))),
      EntryText(T(<<"a">>)),
      T(<<"[", "1", "]">>)>>

\* get reads the body of the response to its GET when the status is 200;
\* any other body is at most quoted in a log line or an error message
BodyRead(status) ==
    local.helper = "_get_with_retry" /\ op.fn = "get" /\ status = 200

\* the body of a response: where it is read, the entry stored (i = 0) or
\* one of GetTexts, and "OK" elsewhere
ResponseText(status, i) ==
    IF BodyRead(status)
    THEN IF i = 0 THEN server.entry.body ELSE GetTexts[i]
    ELSE OKText

InitData ==
    /\ policy \in DataPolicies
    /\ op = NoOp
    /\ stack = << >>
    /\ local = NoLocal
    /\ trace = << >>
    /\ result = NoResult
    /\ arg = NoArg
    /\ server = NoServer

\* the caller invokes a data operation; kind and i say what it passes
\* besides the cache name: the i-th of PutValues, or the deserialize flag
CallData(fn, cache_name, kind, i, deserialize) ==
    /\ Idle
    /\ LET t == Invoke(fn, cache_name, << >>)
       IN /\ op' = [fn |-> fn, cache_name |-> cache_name]
          /\ stack' = t.stack
          /\ result' = t.result
          /\ local' = IF t.helper = "none" THEN NoLocal ELSE StartLocal(t.helper)
          /\ trace' = IF t.helper = "none" THEN << >> ELSE <<NewInvocation(t.helper)>>
    /\ arg' = CASE kind = "value" -> ValueArg(PutValues[i])
                [] kind = "flag" -> FlagArg(deserialize)
                [] OTHER -> NoArg
    /\ UNCHANGED <<policy, server>>

CallPut ==
    \E n \in DataCacheNames, i \in 1..Len(PutValues) : CallData("put", n, "value", i, TRUE)
CallGet ==
    \E n \in DataCacheNames, d \in BOOLEAN : CallData("get", n, "flag", 0, d)
CallDelete == \E n \in DataCacheNames : CallData("delete", n, "none", 0, TRUE)
CallEnsureCacheExists ==
    \E n \in DataCacheNames : CallData("_ensure_cache_exists", n, "none", 0, TRUE)

TransportRespondsData ==
    \E s \in StatusCodes, i \in 0..Len(GetTexts) :
        /\ i = 0 => (BodyRead(s) /\ server.entry.present)
        /\ i > 1 => BodyRead(s)
        /\ Attempt(TRUE, s, ResponseText(s, i), "None")

NextData ==
    \/ CallPut
    \/ CallGet
    \/ CallDelete
    \/ CallEnsureCacheExists
    \/ TransportRespondsData
    \/ TransportFails
    \/ Finish

SpecData == InitData /\ [][NextData]_vars

----------------------------------------------------------------------------
(***************************************************************************)
(* Properties.                                                             *)
(***************************************************************************)
Invocations == {trace[i] : i \in 1..Len(trace)}

Ended(inv) == inv.exit # "running"

AllFailed(inv) == Ended(inv) /\ inv.failures = inv.call_count

RECURSIVE Pow(_, _)
Pow(b, n) == IF n = 0 THEN 1 ELSE b * Pow(b, n - 1)

\* min(initialDelay * backoffMultiplier^i, maxDelay), i counted from 0
ExpectedDelay(i) ==
    Min(policy.initial_retry_delay * Pow(policy.retry_backoff_multiplier, i),
        policy.max_retry_delay)

\* the operation is over and the caller has its result
Over == result.kind # "none"

\* C1: a retry helper whose transport call fails on every attempt makes exactly
\* max_retries + 1 attempts, sleeps exactly max_retries times, each sleep before
\* the final attempt, and raises the failure of the last attempt; called
\* directly, that exception is what its caller gets.
C1_AllAttemptsFail ==
    \A inv \in Invocations :
        AllFailed(inv) =>
            /\ inv.call_count = policy.max_retries + 1
            /\ Len(inv.sleep_calls) = policy.max_retries
            /\ \A j \in 1..Len(inv.sleep_at) : inv.sleep_at[j] < inv.call_count
            /\ inv.exit = "raise"
            /\ inv.exc = inv.last_call.exc
            /\ (op.fn \in RetryHelpers /\ Over) =>
                    (result.kind = "raise" /\ result.val.type = inv.last_call.exc)

C1_Witness ==
    /\ op.fn = "_create_cache_with_retry"
    /\ Over
    /\ policy.max_retries >= 2
    /\ AllFailed(trace[1])
    /\ trace[1].exc = "requests.exceptions.Timeout"

\* C2: a retry helper that returns a response after k failed attempts has made
\* exactly k + 1 attempts and slept exactly k times, with k <= max_retries, and
\* the response it returns is the one of its last attempt; once a response has
\* come the helper is over.
C2_SuccessAfterKFailures ==
    \A inv \in Invocations :
        /\ inv.exit = "return" =>
            /\ inv.failures <= policy.max_retries
            /\ inv.call_count = inv.failures + 1
            /\ Len(inv.sleep_calls) = inv.failures
            /\ inv.last_call.ok
            /\ inv.status_code = inv.last_call.status_code
            /\ inv.text = inv.last_call.text
            /\ (op.fn \in RetryHelpers /\ Over) =>
                    (result.kind = "return"
                     /\ result.val = Response(inv.last_call.status_code, inv.last_call.text))
        /\ inv.exit = "running" => inv.call_count = inv.failures

C2_Witness ==
    /\ op.fn = "_create_cache_with_retry"
    /\ Over
    /\ policy.max_retries >= 2
    /\ trace[1].exit = "return"
    /\ trace[1].failures = policy.max_retries
    /\ trace[1].status_code = 201

\* C3 (as stated): the i-th sleep of a retry helper, i = 0, 1, ..., lasts
\* min(initialDelay * backoffMultiplier^i, maxDelay).
C3_SleepIsCappedPower ==
    \A inv \in Invocations :
        \A i \in 1..Len(inv.sleep_calls) : inv.sleep_calls[i] = ExpectedDelay(i - 1)

\* C4 (as stated): every sleep of a retry helper is at most max_retry_delay.
C4_SleepAtMostMaxDelay ==
    \A inv \in Invocations :
        \A i \in 1..Len(inv.sleep_calls) : inv.sleep_calls[i] <= policy.max_retry_delay

\* C5: a retry helper never retries on an HTTP status: when its transport call
\* has returned a response, whatever the status, the helper has returned that
\* response, and no sleep followed the call.
C5_NoRetryOnStatus ==
    \A inv \in Invocations :
        (inv.call_count > 0 /\ inv.last_call.ok) =>
            /\ inv.exit = "return"
            /\ inv.status_code = inv.last_call.status_code
            /\ \A j \in 1..Len(inv.sleep_at) : inv.sleep_at[j] < inv.call_count

C5_Witness ==
    /\ Len(trace) = 1
    /\ trace[1].helper = "_get_with_retry"
    /\ trace[1].exit = "return"
    /\ trace[1].status_code = 500
    /\ trace[1].call_count = 1
    /\ policy.max_retries >= 1

\* C6: create_cache for a name without an entry in the configuration raises
\* ValueError and no request is made, neither the existence GET nor the POST.
C6_UnconfiguredRaisesBeforeNetwork ==
    (op.fn = "create_cache" /\ op.cache_name \notin DOMAIN Caches) =>
        /\ trace = << >>
        /\ result.kind = "raise"
        /\ result.val.type = "ValueError"

C6_Witness ==
    /\ op = [fn |-> "create_cache", cache_name |-> "ghost-cache"]
    /\ result.kind = "raise"

\* C7: create_cache for a configured name whose existence check is true (the
\* GET returned 200) returns True and makes no POST.
C7_ExistingCacheNotRecreated ==
    (/\ op.fn = "create_cache"
     /\ Len(trace) >= 1
     /\ trace[1].exit = "return"
     /\ trace[1].status_code = 200) =>
        /\ Len(trace) = 1
        /\ trace[1].method = "GET"
        /\ result.kind = "return"
        /\ result.val = TRUE

C7_Witness ==
    /\ op = [fn |-> "create_cache", cache_name |-> "test-cache"]
    /\ Len(trace) = 1
    /\ trace[1].status_code = 200
    /\ result.kind = "return"

OperationErrorType == "Exception"

POSTExhausted ==
    /\ op.fn = "create_cache"
    /\ Len(trace) = 2
    /\ AllFailed(trace[2])

\* C9 (as stated): when every attempt of the POST fails at transport level,
\* create_cache raises an error whose class differs from the class of the
\* error raised for a bad status, whatever the transport failure.
C9_ConnectivityErrorDistinct ==
    POSTExhausted =>
        (result.kind = "raise" /\ result.val.type # OperationErrorType)

\* C9 (amended): when every attempt of the POST fails at transport level,
\* create_cache raises ConnectionError, a class other than that of the error
\* for a bad status, if the last failure is a connection error or a timeout,
\* and raises a generic Exception, the class of the error for a bad status,
\* with its own message if the last failure is any other RequestException.
C9_ConnectivityErrorByFailure ==
    POSTExhausted =>
        /\ result.kind = "raise"
        /\ trace[2].last_call.exc \in {"requests.exceptions.ConnectionError",
                                       "requests.exceptions.Timeout"} =>
                (result.val.type = "ConnectionError"
                 /\ result.val.type # OperationErrorType)
        /\ trace[2].last_call.exc = "requests.exceptions.RequestException" =>
                (result.val.type = OperationErrorType
                 /\ result.val.msg = "Request failed while creating cache")

C9_Witness ==
    /\ POSTExhausted
    /\ policy.max_retries >= 1
    /\ trace[2].last_call.exc = "requests.exceptions.Timeout"
    /\ result.kind = "raise"

\* C10: cache_exists never raises; it returns True exactly when the GET ended
\* with a response of status 200, and False for any other status and when all
\* max_retries + 1 attempts failed at transport level.
C10_ExistsIffStatus200 ==
    (op.fn = "cache_exists" /\ Over) =>
        /\ result.kind = "return"
        /\ Len(trace) = 1
        /\ result.val = (trace[1].last_call.ok /\ trace[1].last_call.status_code = 200)
        /\ AllFailed(trace[1]) =>
                (trace[1].call_count = policy.max_retries + 1 /\ result.val = FALSE)

C10_Witness ==
    /\ op.fn = "cache_exists"
    /\ Over
    /\ AllFailed(trace[1])
    /\ policy.max_retries >= 1
    /\ result.kind = "return"

----------------------------------------------------------------------------
(***************************************************************************)
(* Properties of the data operations.  Within put and                      *)
(* _ensure_cache_exists the helper invocations are, in order: the          *)
(* existence GET, the existence GET of create_cache, the POST, the PUT;    *)
(* within get and delete: the existence GET, then the request for the key. *)
(***************************************************************************)
\* the i-th helper invocation got a response with one of the statuses
Answered(i, statuses) ==
    /\ Len(trace) >= i
    /\ trace[i].last_call.ok
    /\ trace[i].last_call.status_code \in statuses

\* the i-th helper invocation is over and did not get one of the statuses
Refused(i, statuses) ==
    /\ Len(trace) >= i
    /\ Ended(trace[i])
    /\ ~Answered(i, statuses)

\* the existence check of the operation came out false
ExistsFalse == Refused(1, {200})

\* create_cache, called after a false existence check, returned True
CreateReturnedTrue == ExistsFalse /\ (Answered(2, {200}) \/ Answered(3, {200, 201}))

\* create_cache raised: a configuration error before any request, or a
\* connectivity or operation error out of the POST
CreateRaised ==
    /\ ExistsFalse
    /\ \/ op.cache_name \notin DOMAIN Caches
       \/ Refused(2, {200}) /\ Refused(3, {200, 201})

\* get returned the value given
GetReturned(value) ==
    op.fn = "get" /\ result.kind = "return" /\ PyEq(result.val, value)

\* the requests made with the method given
Requests(method) == {i \in 1..Len(trace) : trace[i].method = method}

\* C11: _ensure_cache_exists never raises; it returns False whenever
\* create_cache raises (configuration, connectivity or operation error), and
\* it returns True only if an existence check returned 200 or create_cache
\* returned True.
C11_EnsureNeverRaises ==
    (op.fn = "_ensure_cache_exists" /\ Over) =>
        /\ result.kind = "return"
        /\ result.val \in BOOLEAN
        /\ CreateRaised => result.val = FALSE
        /\ result.val = TRUE => (Answered(1, {200}) \/ CreateReturnedTrue)

C11_Witness ==
    /\ op = [fn |-> "_ensure_cache_exists", cache_name |-> "test-cache"]
    /\ Over
    /\ Len(trace) = 3
    /\ AllFailed(trace[3])
    /\ policy.max_retries >= 1
    /\ result = Return(FALSE)

\* C12: whenever _ensure_cache_exists returns False, put returns False and
\* makes no PUT request.
C12_PutStopsWhenEnsureFails ==
    (op.fn = "put" /\ CreateRaised) =>
        /\ Requests("PUT") = {}
        /\ Over
        /\ result = Return(FALSE)

C12_Witness ==
    /\ op = [fn |-> "put", cache_name |-> "test-cache"]
    /\ PyEq(arg.value, PyStr(Hello))
    /\ Len(trace) = 3
    /\ Answered(3, {500})
    /\ result = Return(FALSE)

\* C13: put never raises and returns True exactly when its PUT was answered
\* with status 200, 201 or 204; it returns False for any other status and
\* when all max_retries + 1 attempts of the PUT failed at transport level.
C13_PutTrueIffAccepted ==
    (op.fn = "put" /\ Over) =>
        /\ result.kind = "return"
        /\ result.val = (\E i \in Requests("PUT") : Answered(i, {200, 201, 204}))
        /\ \A i \in Requests("PUT") :
                AllFailed(trace[i]) =>
                    (trace[i].call_count = policy.max_retries + 1 /\ result.val = FALSE)

C13_Witness ==
    /\ op.fn = "put"
    /\ Over
    /\ policy.max_retries >= 1
    /\ \E i \in Requests("PUT") : AllFailed(trace[i])
    /\ result = Return(FALSE)

\* C14: when the existence check is false, get returns None and delete
\* returns False, and neither makes a request for the key.
C14_AbsentCacheNoKeyRequest ==
    (op.fn \in {"get", "delete"} /\ ExistsFalse) =>
        /\ Len(trace) = 1
        /\ Over
        /\ op.fn = "get" => GetReturned(PyNone)
        /\ op.fn = "delete" => result = Return(FALSE)

C14_Witness ==
    /\ op = [fn |-> "get", cache_name |-> "test-cache"]
    /\ Over
    /\ Answered(1, {404})
    /\ GetReturned(PyNone)

\* C15: get and delete never provision: while one of them runs no POST is
\* made, and no step of theirs changes the set of caches on the server.
C15_GetDeleteNeverProvision ==
    /\ [](op.fn \in {"get", "delete"} => Requests("POST") = {})
    /\ [][op.fn \in {"get", "delete"} => server'.caches = server.caches]_vars

C15_Witness ==
    /\ op = [fn |-> "delete", cache_name |-> "test-cache"]
    /\ Over
    /\ ExistsFalse
    /\ server.caches = {}

C17_DeleteByStatus ==
    (op.fn = "delete" /\ Over) =>
        /\ result.kind = "return"
        /\ Answered(1, {200}) =>
            /\ Len(trace) = 2
            /\ trace[2].method = "DELETE"
            /\ Answered(2, {200, 204, 404}) => result.val = TRUE
            /\ Refused(2, {200, 204, 404}) => result.val = FALSE
            /\ AllFailed(trace[2]) => trace[2].call_count = policy.max_retries + 1

C17_Witness ==
    /\ op.fn = "delete"
    /\ Over
    /\ Answered(1, {200})
    /\ Answered(2, {404})
    /\ result = Return(TRUE)

\* the server stores what a put of "hello" into the cache of the running
\* operation sent, and answers the GET of the key with it
EchoesHello ==
    /\ Answered(1, {200})
    /\ Answered(2, {200})
    /\ server.entry.present
    /\ server.entry.cache_name = op.cache_name
    /\ PyEq(server.entry.value, PyStr(Hello))
    /\ trace[2].last_call.text = server.entry.body

\* C19: after a put of "hello" that returned True, a get of the same key,
\* from a server that reports the cache as existing and answers with the
\* body of that PUT, returns exactly the string "hello".
C19_PutThenGetHello ==
    (op.fn = "get" /\ arg.deserialize /\ Over /\ EchoesHello) =>
        GetReturned(PyStr(Hello))

C19_Witness ==
    /\ op = [fn |-> "get", cache_name |-> "test-cache"]
    /\ arg.deserialize
    /\ Over
    /\ EchoesHello
    /\ GetReturned(PyStr(Hello))

----------------------------------------------------------------------------
(***************************************************************************)
(* The value encoding on its own: _serialize_value is applied to a value,  *)
(* _deserialize_value to the wire text that came out of it, or to a wire   *)
(* text that a server sent.                                                *)
(***************************************************************************)
\* the characters of the strings encoded: a, 1, ", [, ] and e with acute
TextAlphabet == {97, 49, 34, 91, 93, 233}

\* the strings encoded
Texts == UNION {[1..n -> TextAlphabet] : n \in 0..MaxTextLen}

\* the values encoded that are not strings: integers, booleans, None,
\* lists, dicts, and an object json.dumps has no encoding for
JsonValues ==
    <<PyInt(0), PyInt(7), PyInt(0 - 12), PyBool(TRUE), PyBool(FALSE), PyNone,
      PyList(<< >>),
      PyList(<<PyInt(1), PyStr(T(<<"a">>)), PyNone>>),
      PyList(<<PyStr(T(<<"1">>)), PyList(<<PyStr(T(<<"\"", "\\">>))>>)>>),
      PyDict(<< >>),
      PyDict(<< <<T(<<"a">>), PyInt(1)>>, <<T(<<"b">>), PyList(<<PyBool(TRUE)>>)>> >>),
      PyDict(<< <<ValueKey, PyStr(T(<<"1">>))>> >>),
      PyObject>>

\* wire texts a server sent: texts that are not JSON ("OK", the empty text,
\* an entry cut short), the entry of "hello", entries whose value is not
\* base64 (a character outside the alphabet, a length that is no multiple
\* of four, padding cut short, data after the padding), an entry whose
\* value is the base64 of bytes that are not UTF-8, an entry whose value is
\* the base64 of a text that is not JSON, an entry whose value is a number,
\* and a JSON text that is no entry
WireTexts ==
    <<OKText,
      << >>,
      Front(EntryText(b64encode(Utf8Encode(Hello)))),
      EntryText(b64encode(Utf8Encode(Hello))),
      EntryText(T(<<"!", "!", "!", "!">>)),
      EntryText(T(<<"a">>)),
      EntryText(T(<<"Y", "Q", "=">>)),
      EntryText(T(<<"Y", "Q", "=", "=", "Y", "Q", "=", "=">>)),
      EntryText(b64encode(<<255>>)),
      EntryText(b64encode(Utf8Encode(T(<<"[", "1">>)))),
      JsonText(Envelope(PyInt(5))),
      T(<<"[", "1", "]">>)>>

\* how a function of the pipeline ends for its caller
Outcome(o) ==
    IF o.ok THEN Return(o.val) ELSE Raise(Exc(o.exc, "", 0, << >>, "None"))

TextOutcome(o) ==
    IF o.ok THEN Return(PyStr(o.val)) ELSE Raise(Exc(o.exc, "", 0, << >>, "None"))

InitCodec ==
    /\ policy = DefaultPolicy
    /\ op = NoOp
    /\ stack = << >>
    /\ local = NoLocal
    /\ trace = << >>
    /\ result = NoResult
    /\ server = NoServer
    /\ \/ \E text \in Texts : arg = ValueArg(PyStr(text))
       \/ \E i \in 1..Len(JsonValues) : arg = ValueArg(JsonValues[i])
       \/ \E i \in 1..Len(WireTexts) : arg = WireArg(WireTexts[i])

\* _serialize_value(value)
SerializeValue ==
    /\ Idle
    /\ arg.kind = "value"
    /\ op' = [fn |-> "_serialize_value", cache_name |-> "none"]
    /\ result' = TextOutcome(serialize_value(arg.value))
    /\ UNCHANGED <<policy, stack, local, trace, arg, server>>

\* _deserialize_value(wire) of the wire text a server sent
DeserializeWire ==
    /\ Idle
    /\ arg.kind = "wire"
    /\ op' = [fn |-> "_deserialize_value", cache_name |-> "none"]
    /\ result' = Outcome(deserialize_value(arg.wire))
    /\ UNCHANGED <<policy, stack, local, trace, arg, server>>

\* _deserialize_value of what _serialize_value returned
DeserializeSerialized ==
    /\ op.fn = "_serialize_value"
    /\ result.kind = "return"
    /\ op' = [fn |-> "_deserialize_value", cache_name |-> "none"]
    /\ arg' = [arg EXCEPT !.wire = result.val.v]
    /\ result' = Outcome(deserialize_value(result.val.v))
    /\ UNCHANGED <<policy, stack, local, trace, server>>

NextCodec ==
    \/ SerializeValue
    \/ DeserializeWire
    \/ DeserializeSerialized

SpecCodec == InitCodec /\ [][NextCodec]_vars

----------------------------------------------------------------------------
(***************************************************************************)
(* Properties of the value encoding.                                       *)
(***************************************************************************)
\* _deserialize_value has been applied to the encoding of a value
RoundTripped == op.fn = "_deserialize_value" /\ arg.kind = "value"

\* _deserialize_value has been applied to a wire text a server sent
Decoded == op.fn = "_deserialize_value" /\ arg.kind = "wire"

\* C18 (as stated): decoding the encoding of a value gives the value back,
\* for every JSON-representable value and for every string, the strings
\* whose text is valid JSON included.
C18_RoundTrip ==
    RoundTripped => (result.kind = "return" /\ PyEq(result.val, arg.value))

\* base64 of RFC 4648: groups of four characters of the alphabet, the last
\* group ending in at most two padding characters
StrictBase64(text) ==
    /\ Len(text) % 4 = 0
    /\ \E pads \in 0..2 :
        /\ pads <= Len(text)
        /\ \A i \in 1..(Len(text) - pads) : B64Value(text[i]) < 64
        /\ \A i \in (Len(text) - pads + 1)..Len(text) : text[i] = B64Pad

\* the text is JSON
OuterParses(wire) == json_loads(wire).ok

\* the text is an object with a value field
IsEntry(wire) ==
    /\ OuterParses(wire)
    /\ json_loads(wire).val.t = "dict"
    /\ ValueKey \in Keys(json_loads(wire).val.v)

ValueField(wire) == Lookup(json_loads(wire).val.v, ValueKey)

\* the value field is the base64 of a UTF-8 text
ValueWellFormed(wire) ==
    /\ ValueField(wire).t = "str"
    /\ Len(Utf8Encode(ValueField(wire).v)) = Len(ValueField(wire).v)
    /\ StrictBase64(ValueField(wire).v)
    /\ Utf8Decode(b64decode(ValueField(wire).v).val).ok

\* the text the value field encodes
InnerText(wire) == Utf8Decode(b64decode(ValueField(wire).v).val).val

\* C20 (as stated): _deserialize_value of a wire text that is not valid JSON,
\* or whose value field is not valid base64 of UTF-8 text, raises instead of
\* returning a value; only an inner text that is not JSON is returned as
\* the text.
C20_DecodeErrorsSurface ==
    Decoded =>
        /\ ~OuterParses(arg.wire) => result.kind = "raise"
        /\ (IsEntry(arg.wire) /\ ~ValueWellFormed(arg.wire)) => result.kind = "raise"
        /\ (IsEntry(arg.wire) /\ ValueWellFormed(arg.wire)
            /\ ~json_loads(InnerText(arg.wire)).ok) =>
                (result.kind = "return" /\ PyEq(result.val, PyStr(InnerText(arg.wire))))

\* _serialize_value has returned the wire text of a value
Serialized == op.fn = "_serialize_value" /\ result.kind = "return"

\* the inner payload of a value: a str verbatim, else its JSON text
InnerPayload(value) == IF value.t = "str" THEN value.v ELSE json_dumps(value).val

\* C21: the text _serialize_value returns, which is the body of the PUT, is
\* a JSON object with exactly the fields _type and value, _type being
\* "cache.CacheEntry" and value the base64 text of the UTF-8 bytes of the
\* inner payload: the string itself for a str, the JSON text of the value
\* otherwise.
C21_PutBodyIsEnvelope ==
    Serialized =>
        /\ IsEntry(result.val.v)
        /\ Keys(json_loads(result.val.v).val.v) = {TypeKey, ValueKey}
        /\ PyEq(Lookup(json_loads(result.val.v).val.v, TypeKey), PyStr(CacheEntryType))
        /\ ValueWellFormed(result.val.v)
        /\ InnerText(result.val.v) = InnerPayload(arg.value)

\* a string whose text is JSON has been serialized
C21_Witness ==
    /\ Serialized
    /\ PyEq(arg.value, PyStr(T(<<"1">>)))

----------------------------------------------------------------------------
(***************************************************************************)
(* CacheCreator._build_cache_config: the cache definition built from the  *)
(* settings object of a cache.  The settings are a JSON object of the      *)
(* configuration file: an entry is absent, null, or has a value.           *)
(***************************************************************************)
\* an entry of a JSON object, by how it is set
Absent(v) == [set |-> "absent", v |-> v]
Null(v) == [set |-> "null", v |-> v]
Val(v) == [set |-> "value", v |-> v]

\* key in config
Has(entry) == entry.set # "absent"

\* config.get(key, default) of an entry that is not null
Get(entry, default) == IF Has(entry) THEN entry.v ELSE default

\* entry * factor: None * int raises TypeError
Times(entry, factor) ==
    IF entry.set = "null" THEN Err("TypeError") ELSE Ok(entry.v * factor)

\* bool(config.get(key, False)): None is falsy
Enabled(entry) == entry.set = "value" /\ entry.v

DataSuffix == T(<<"/", "d", "a", "t", "a">>)
IndexSuffix == T(<<"/", "i", "n", "d", "e", "x">>)
DefaultPath == T(<<"c", "a", "c", "h", "e", "s">>)
TestPath == T(<<"t", "e", "s", "t", "-", "c", "a", "c", "h", "e", "-", "d", "a", "t", "a">>)

\* the values of the settings' entries
MemorySizes == {Absent(""), Val("50MB"), Val("100MB")}
TtlHours == {Absent(0)} \cup {Val(h) : h \in 0..MaxTtlHours}
L1Minutes == {Absent(0), Null(0), Val(30)}
L1Hours == {Absent(0), Null(0), Val(1)}
Flags == {Absent(FALSE), Val(TRUE), Val(FALSE)}
StoreTypes == {Absent(""), Val("file-store"), Val("soft-index-file-store")}
Paths == {Absent(<< >>), Val(TestPath)}
WriteBehinds ==
    {{}} \cup {{[enabled |-> e, modification_queue_size |-> q, fail_silently |-> Absent(FALSE)]} :
                    e \in {Val(TRUE), Val(FALSE)}, q \in {Absent(0), Val(1024)}}
Persistences ==
    {{}} \cup {{[enabled |-> e, type |-> t, path |-> p, shared |-> Absent(FALSE),
                 passivation |-> Absent(FALSE), write_behind |-> w]} :
                    e \in Flags, t \in StoreTypes, p \in Paths, w \in WriteBehinds}

\* the entries of the settings _build_cache_config never reads
Isolations == {Absent(""), Val("REPEATABLE_READ")}
TransactionModes == {Absent(""), Val("NON_XA")}
MediaTypes == {Absent(""), Val("application/json")}

CacheSettings(memory_size, ttl_hours, minutes, hours, persistence, isolation, mode, media) ==
    [memory_size |-> memory_size, ttl_hours |-> ttl_hours,
     l1_expiration_minutes |-> minutes, l1_expiration_hours |-> hours,
     persistence |-> persistence,
     locking |-> isolation, transaction |-> mode, encoding |-> media]

SettingsArg(config) == [NoArg EXCEPT !.kind = "settings", !.value = config]

\* _get_l1_expiration_ms
get_l1_expiration_ms(config) ==
    IF Has(config.l1_expiration_minutes)
    THEN Times(config.l1_expiration_minutes, 60 * 1000)
    ELSE IF Has(config.l1_expiration_hours)
         THEN Times(config.l1_expiration_hours, 60 * 60 * 1000)
         ELSE Ok(30 * 60 * 1000)

\* a check that accepts every store type
store_supported_any(store_type) == TRUE

\* store_type != 'file-store' returns None
store_supported(store_type) == store_type = "file-store"

\* the write-behind block of the file store: the set holding it, or the empty
\* set when write-behind is not enabled
write_behind_config(write_behind) ==
    {[modification_queue_size |-> Get(w.modification_queue_size, 2048),
      fail_silently |-> Get(w.fail_silently, FALSE)] : w \in {w \in write_behind : Enabled(w.enabled)}}

file_store_config(persistence_settings) ==
    [shared |-> Get(persistence_settings.shared, FALSE),
     data |-> [path |-> Get(persistence_settings.path, DefaultPath) \o DataSuffix],
     index |-> [path |-> Get(persistence_settings.path, DefaultPath) \o IndexSuffix],
     write_behind |-> write_behind_config(persistence_settings.write_behind)]

\* _build_persistence_config: the set holding the persistence block, or the
\* empty set for None
build_persistence_config(config) ==
    {[passivation |-> Get(p.passivation, FALSE), file_store |-> file_store_config(p)] :
        p \in {p \in config.persistence :
                    Enabled(p.enabled) /\ store_supported(Get(p.type, "file-store"))}}

\* a conversion of ttl_hours that takes it for minutes
ttl_ms_minutes(config) == Get(config.ttl_hours, 2) * 60 * 1000

\* ttl_ms = ttl_hours * 60 * 60 * 1000
ttl_ms(config) == Get(config.ttl_hours, 2) * 60 * 60 * 1000

\* a locking block that follows the settings
locking_config_from_settings(config) ==
    [isolation |-> Get(config.locking, "READ_COMMITTED"), acquire_timeout |-> 30000]

\* the "locking" block
locking_config(config) == [isolation |-> "READ_COMMITTED", acquire_timeout |-> 30000]

\* the dict _build_cache_config returns, under "distributed-cache"
distributed_cache(config, l1_expiration_ms) ==
    [mode |-> "SYNC",
     owners |-> 1,
     statistics |-> TRUE,
     l1_lifespan |-> l1_expiration_ms,
     l1_cleanup_interval |-> l1_expiration_ms,
     locking |-> locking_config(config),
     transaction |-> [mode |-> "NONE", auto_commit |-> TRUE, locking |-> "OPTIMISTIC"],
     memory |-> [max_size |-> Get(config.memory_size, "50MB"), when_full |-> "REMOVE",
                 storage |-> "HEAP"],
     expiration |-> [lifespan |-> ttl_ms(config)],
     encoding |-> [key |-> [media_type |-> "application/x-protostream"],
                   value |-> [media_type |-> "application/x-protostream"]],
     persistence |-> build_persistence_config(config)]

built_cache_config(config, l1_expiration_ms) ==
    IF l1_expiration_ms.ok THEN Ok(distributed_cache(config, l1_expiration_ms.val))
    ELSE l1_expiration_ms

\* _build_cache_config: Ok(the definition) or the TypeError of the L1
\* conversion
build_cache_config(config) == built_cache_config(config, get_l1_expiration_ms(config))

\* how a function of the builder ends for its caller
Built(o) == IF o.ok THEN Return(o.val) ELSE Raise(Exc(o.exc, "", 0, << >>, "None"))

InitConfig ==
    /\ policy = DefaultPolicy
    /\ op = NoOp
    /\ stack = << >>
    /\ local = NoLocal
    /\ trace = << >>
    /\ result = NoResult
    /\ server = NoServer
    /\ \E m \in MemorySizes, t \in TtlHours, minutes \in L1Minutes, hours \in L1Hours,
          p \in Persistences, i \in Isolations, x \in TransactionModes, e \in MediaTypes :
            arg = SettingsArg(CacheSettings(m, t, minutes, hours, p, i, x, e))

\* _build_cache_config(config)
BuildCacheConfig ==
    /\ Idle
    /\ op' = [fn |-> "_build_cache_config", cache_name |-> "none"]
    /\ result' = Built(build_cache_config(arg.value))
    /\ UNCHANGED <<policy, stack, local, trace, arg, server>>

\* _get_l1_expiration_ms(config)
GetL1ExpirationMs ==
    /\ Idle
    /\ op' = [fn |-> "_get_l1_expiration_ms", cache_name |-> "none"]
    /\ result' = Built(get_l1_expiration_ms(arg.value))
    /\ UNCHANGED <<policy, stack, local, trace, arg, server>>

\* _build_persistence_config(config)
BuildPersistenceConfig ==
    /\ Idle
    /\ op' = [fn |-> "_build_persistence_config", cache_name |-> "none"]
    /\ result' = Return(build_persistence_config(arg.value))
    /\ UNCHANGED <<policy, stack, local, trace, arg, server>>

NextConfig ==
    \/ BuildCacheConfig
    \/ GetL1ExpirationMs
    \/ BuildPersistenceConfig

SpecConfig == InitConfig /\ [][NextConfig]_vars

----------------------------------------------------------------------------
(***************************************************************************)
(* Properties of the cache definition.                                     *)
(***************************************************************************)
\* _build_cache_config has returned the definition of the settings
Defined == op.fn = "_build_cache_config" /\ result.kind = "return"

\* the settings of the end-to-end scenario
ScenarioSettings ==
    /\ arg.value.memory_size = Val("50MB")
    /\ arg.value.ttl_hours = Val(2)
    /\ arg.value.l1_expiration_minutes = Val(30)

\* C22: the definition built has expiration lifespan ttl_hours * 3600000,
\* max-size the memory size string of the settings, and l1-lifespan equal to
\* l1-cleanup-interval; for memory_size "50MB", ttl_hours 2 and
\* l1_expiration_minutes 30 it has lifespan 7200000, l1-lifespan 1800000 and
\* max-size "50MB".
C22_DefinitionNumbers ==
    Defined =>
        /\ Has(arg.value.ttl_hours) =>
                result.val.expiration.lifespan = arg.value.ttl_hours.v * 3600000
        /\ Has(arg.value.memory_size) =>
                result.val.memory.max_size = arg.value.memory_size.v
        /\ result.val.l1_lifespan = result.val.l1_cleanup_interval
        /\ ScenarioSettings =>
                /\ result.val.expiration.lifespan = 7200000
                /\ result.val.l1_lifespan = 1800000
                /\ result.val.memory.max_size = "50MB"

\* the definition of the scenario's settings has been built
C22_Witness == Defined /\ ScenarioSettings

\* an entry with a value: present and not null
IsSet(entry) == entry.set = "value"

\* the L1 expiration the settings resolve to, null counting as not set
ResolvedL1(config) ==
    IF IsSet(config.l1_expiration_minutes) THEN config.l1_expiration_minutes.v * 60000
    ELSE IF IsSet(config.l1_expiration_hours) THEN config.l1_expiration_hours.v * 3600000
    ELSE 1800000

\* C23 (as stated): _get_l1_expiration_ms returns minutes * 60000 when
\* l1_expiration_minutes is set, otherwise hours * 3600000 when
\* l1_expiration_hours is set, otherwise 1800000, an entry that is present
\* but null counting as not set.
C23_L1Resolution ==
    op.fn = "_get_l1_expiration_ms" =>
        (result.kind = "return" /\ result.val = ResolvedL1(arg.value))

\* persistence is enabled with the file store (the type's default)
FileStoreEnabled(config) ==
    \E p \in config.persistence :
        p.enabled = Val(TRUE) /\ p.type \in {Absent(""), Val("file-store")}

\* persistence is enabled with a store that is not the file store
OtherStoreEnabled(config) ==
    \E p \in config.persistence :
        p.enabled = Val(TRUE) /\ IsSet(p.type) /\ p.type.v # "file-store"

WriteBehindEnabled(config) ==
    \E p \in config.persistence : \E w \in p.write_behind : w.enabled = Val(TRUE)

\* C24: the definition has a persistence block exactly when persistence is
\* enabled and its type is "file-store"; with another type
\* _build_persistence_config returns None without raising and
\* _build_cache_config ends as it does for the same settings without
\* persistence, returning whenever the L1 entries are not null; the block
\* has a write-behind block exactly when write-behind is enabled.
C24_PersistenceBlock ==
    /\ Defined =>
        /\ result.val.persistence # {} <=> FileStoreEnabled(arg.value)
        /\ \A b \in result.val.persistence :
                b.file_store.write_behind # {} <=> WriteBehindEnabled(arg.value)
    /\ (op.fn = "_build_persistence_config" /\ OtherStoreEnabled(arg.value)) =>
        (result.kind = "return" /\ result.val = {})
    /\ (op.fn = "_build_cache_config" /\ OtherStoreEnabled(arg.value)) =>
        /\ result = Built(build_cache_config([arg.value EXCEPT !.persistence = {}]))
        /\ (arg.value.l1_expiration_minutes.set # "null"
             /\ arg.value.l1_expiration_hours.set # "null") => result.kind = "return"

\* a definition has been built from settings that enable persistence with a
\* store that is not the file store, write-behind enabled
C24_Witness ==
    /\ Defined
    /\ OtherStoreEnabled(arg.value)
    /\ WriteBehindEnabled(arg.value)

\* C25: the outcome of _build_cache_config is the same for settings that
\* differ only in their locking, transaction and encoding entries, and every
\* definition has mode SYNC, owners 1, statistics on, locking READ_COMMITTED
\* with acquire-timeout 30000, transaction mode NONE and the protostream
\* media type for keys and values.
C25_DefinitionDeterministic ==
    /\ op.fn = "_build_cache_config" =>
        \A i \in Isolations, x \in TransactionModes, e \in MediaTypes :
            Built(build_cache_config([arg.value EXCEPT !.locking = i, !.transaction = x,
                                                       !.encoding = e])) = result
    /\ Defined =>
        /\ result.val.mode = "SYNC"
        /\ result.val.owners = 1
        /\ result.val.statistics = TRUE
        /\ result.val.locking = [isolation |-> "READ_COMMITTED", acquire_timeout |-> 30000]
        /\ result.val.transaction.mode = "NONE"
        /\ result.val.encoding.key.media_type = "application/x-protostream"
        /\ result.val.encoding.value.media_type = "application/x-protostream"

\* a definition has been built from settings with locking, transaction and
\* encoding entries
C25_Witness ==
    /\ Defined
    /\ IsSet(arg.value.locking)
    /\ IsSet(arg.value.transaction)
    /\ IsSet(arg.value.encoding)

----------------------------------------------------------------------------
(***************************************************************************)
(* The schema operations: a SchemaManager with retry settings from         *)
(* DataPolicies runs get_schema, schema_exists, register_schema and        *)
(* register_cache_entry_schema, one after another, against the same        *)
(* server.                                                                 *)
(***************************************************************************)
InitSchema ==
    /\ policy \in DataPolicies
    /\ op = NoOp
    /\ stack = << >>
    /\ local = NoLocal
    /\ trace = << >>
    /\ result = NoResult
    /\ arg = NoArg
    /\ server = NoServer

CallGetSchema == \E n \in SchemaNames : Call("get_schema", n)
CallSchemaExists == \E n \in SchemaNames : Call("schema_exists", n)
CallRegisterSchema == \E n \in SchemaNames : Call("register_schema", n)
CallRegisterCacheEntrySchema == Call("register_cache_entry_schema", CacheEntrySchema)

\* the server answers the schema request: any status, with a text
TransportRespondsSchema == \E s \in StatusCodes : Attempt(TRUE, s, OKText, "None")

NextSchema ==
    \/ CallGetSchema
    \/ CallSchemaExists
    \/ CallRegisterSchema
    \/ CallRegisterCacheEntrySchema
    \/ TransportRespondsSchema
    \/ TransportFails
    \/ Finish

SpecSchema == InitSchema /\ [][NextSchema]_vars

----------------------------------------------------------------------------
(***************************************************************************)
(* Properties of the schema operations.                                    *)
(***************************************************************************)
\* a registration of a schema is running or just over
Registering == op.fn \in {"register_schema", "register_cache_entry_schema"}

\* every schema GET of the operation that is over was answered with 200
ChecksPassed ==
    \A i \in Requests("GET") : Ended(trace[i]) => Answered(i, {200})

\* schema_exists of the schema is true: the server has shown or accepted
\* the schema, and no check of the running operation said otherwise
SchemaKnown == op.cache_name \in server.schemas /\ ChecksPassed

\* the registration POSTs sent
Posted == {i \in Requests("POST") : trace[i].call_count > 0}

\* C26 (as stated): a registration of a schema for which schema_exists is
\* true sends no registration POST and returns True, for register_schema
\* with any name as for register_cache_entry_schema.
C26_RegisterIdempotent ==
    [][(Registering /\ op' = op /\ SchemaKnown) =>
            (Posted' = {} /\ result' \in {NoResult, Return(TRUE)})]_vars

\* C27: schema_exists never raises, and returns True exactly when the
\* schema GET was answered with 200: 404, any other status and a transport
\* failure after the last retry give False.
C27_SchemaExistsIff200 ==
    (op.fn = "schema_exists" /\ Over) =>
        /\ result.kind = "return"
        /\ result.val = Answered(1, {200})

\* schema_exists has returned False after a GET that failed at every attempt
C27_Witness ==
    /\ op.fn = "schema_exists"
    /\ Over
    /\ AllFailed(trace[1])
    /\ result = Return(FALSE)

\* C28: register_schema never raises; it returns True exactly when the
\* registration POST was answered with 200, 201 or 204, and False for any
\* other status and for a transport failure after the last retry.
C28_RegisterNeverRaises ==
    (op.fn = "register_schema" /\ Over) =>
        /\ result.kind = "return"
        /\ result.val = Answered(1, {200, 201, 204})

\* register_schema has returned False after a POST that failed at every
\* attempt
C28_Witness ==
    /\ op.fn = "register_schema"
    /\ Over
    /\ AllFailed(trace[1])
    /\ result = Return(FALSE)

----------------------------------------------------------------------------
(***************************************************************************)
(* The order of the requests of put.                                       *)
(***************************************************************************)
\* the place of a request in a put: existence checks, create, PUT
Rank(method) ==
    CASE method = "GET" -> 1
      [] method = "POST" -> 2
      [] method = "PUT" -> 3
      [] OTHER -> 0

\* the j-th request told put that the cache is there: an existence check
\* answered with 200, or a create POST answered with 200 or 201
Provisioned(j) ==
    \/ trace[j].method = "GET" /\ Answered(j, {200})
    \/ trace[j].method = "POST" /\ Answered(j, {200, 201})

\* C29: in a put, the PUT comes only after an existence check of the same
\* put was answered with 200 or its create POST with 200 or 201, and the
\* requests go in the order existence checks, at most one create POST, at
\* most one PUT.
C29_PutAfterProvisioning ==
    op.fn = "put" =>
        /\ \A i \in Requests("PUT") : \E j \in 1..(i - 1) : Provisioned(j)
        /\ \A i, j \in 1..Len(trace) :
                i < j => Rank(trace[i].method) <= Rank(trace[j].method)
        /\ \A i \in 1..Len(trace) : Rank(trace[i].method) > 0
        /\ Cardinality(Requests("POST")) <= 1
        /\ Cardinality(Requests("PUT")) <= 1

\* a put has sent its PUT after two existence checks that failed and a
\* create POST answered with 201
C29_Witness ==
    /\ op.fn = "put"
    /\ Len(trace) = 4
    /\ ~Answered(1, {200})
    /\ ~Answered(2, {200})
    /\ Answered(3, {201})
    /\ trace[4].method = "PUT"
    /\ trace[4].call_count > 0

----------------------------------------------------------------------------
(***************************************************************************)
(* Retry helpers run by two threads on the same client.  delay, attempt    *)
(* and last_exception are local variables of the helper: each invocation  *)
(* has its own, and a thread runs its invocations one after another.  Here *)
(* local and trace hold one value per thread.                              *)
(***************************************************************************)
\* the threads, and the helper each of them calls
Threads == {"main", "worker"}

ThreadHelper(t) == IF t = "main" THEN "_put_with_retry" ELSE "_cache_exists_with_retry"

\* locals that every invocation reads from the first thread's frame
thread_locals_shared(locals, t) == locals["main"]

\* the locals of the invocation thread t is running
thread_locals(locals, t) == locals[t]

\* thread t is inside a helper
Running(t) == trace[t] # << >> /\ Last(trace[t]).exit = "running"

\* the retry settings of the client the threads share: the defaults, with
\* every max_retries
ThreadPolicies == {[DefaultPolicy EXCEPT !.max_retries = r] : r \in 0..MaxRetriesBound}

InitThreads ==
    /\ policy \in ThreadPolicies
    /\ op = NoOp
    /\ stack = << >>
    /\ local = [t \in Threads |-> NoLocal]
    /\ trace = [t \in Threads |-> << >>]
    /\ result = NoResult
    /\ arg = NoArg
    /\ server = NoServer

\* thread t calls its helper
ThreadCall(t) ==
    /\ ~Running(t)
    /\ Len(trace[t]) < MaxInvocations
    /\ local' = [local EXCEPT ![t] = StartLocal(ThreadHelper(t))]
    /\ trace' = [trace EXCEPT ![t] = Append(@, NewInvocation(ThreadHelper(t)))]
    /\ UNCHANGED <<policy, op, stack, result, arg, server>>

\* one transport call of the helper thread t is running
ThreadAttempt(t, ok, status, exc) ==
    /\ Running(t)
    /\ LET o == IF ok THEN Responds(status, OKText) ELSE Fails(exc)
           h == helper_attempt(thread_locals(local, t), o)
       IN /\ local' = [local EXCEPT ![t] = IF h.exit = "continue" THEN h.local ELSE NoLocal]
          /\ trace' = [trace EXCEPT ![t][Len(trace[t])] = Recorded(@, o, h)]
    /\ UNCHANGED <<policy, op, stack, result, arg, server>>

ThreadCalls == \E t \in Threads : ThreadCall(t)
ThreadResponds == \E t \in Threads : ThreadAttempt(t, TRUE, 200, "None")
ThreadFails ==
    \E t \in Threads : ThreadAttempt(t, FALSE, 0, "requests.exceptions.ConnectionError")

NextThreads ==
    \/ ThreadCalls
    \/ ThreadResponds
    \/ ThreadFails

SpecThreads == InitThreads /\ [][NextThreads]_vars

RECURSIVE SoloDelay(_)
\* the k-th sleep of a helper invocation that runs alone
SoloDelay(k) ==
    IF k = 1 THEN policy.initial_retry_delay
    ELSE Min(SoloDelay(k - 1) * policy.retry_backoff_multiplier, policy.max_retry_delay)

\* the invocation has made the attempts and sleeps it makes alone, given how
\* many of its own transport calls failed
RunsAsAlone(inv) ==
    /\ inv.call_count <= policy.max_retries + 1
    /\ inv.call_count = inv.failures + (IF inv.exit = "return" THEN 1 ELSE 0)
    /\ inv.exit = "raise" <=> inv.failures = policy.max_retries + 1
    /\ Len(inv.sleep_calls) = Min(inv.failures, policy.max_retries)
    /\ \A k \in 1..Len(inv.sleep_calls) :
            /\ inv.sleep_calls[k] = SoloDelay(k)
            /\ inv.sleep_at[k] = k

\* C30: every invocation of a retry helper, whether it follows another one
\* of its thread or runs while another thread is inside a helper, makes the
\* attempts and the sleeps it makes alone, starting at the first attempt
\* and initial_retry_delay; no step changes the retry settings of the
\* client.
C30_InvocationsIndependent ==
    /\ [](\A t \in Threads : \A i \in 1..Len(trace[t]) : RunsAsAlone(trace[t][i]))
    /\ [][policy' = policy]_vars

\* the second invocation of one thread has slept twice, after a first that
\* slept twice, while the other thread is inside a helper that has slept too
C30_Witness ==
    /\ Len(trace["main"]) = 2
    /\ Len(trace["main"][1].sleep_calls) >= 2
    /\ Len(trace["main"][2].sleep_calls) >= 2
    /\ Running("worker")
    /\ Last(trace["worker"]).sleep_calls # << >>

----------------------------------------------------------------------------
(***************************************************************************)
(* Provisioning and data operations of one client, one call after          *)
(* another: create_cache, put, get and delete on a cache with settings, a  *)
(* cache whose settings say "enabled": false, and a cache without          *)
(* settings.  The server keeps the caches created by earlier calls.        *)
(***************************************************************************)
ProvisionNames == {"test-cache", "disabled-cache", "ghost-cache"}

CreateCache == \E n \in ProvisionNames : CallData("create_cache", n, "none", 0, TRUE)
PutEntry == \E n \in ProvisionNames : CallData("put", n, "value", 1, TRUE)
GetEntry == \E n \in ProvisionNames : CallData("get", n, "flag", 0, TRUE)
DeleteEntry == \E n \in ProvisionNames : CallData("delete", n, "none", 0, TRUE)

\* the server answers the request with any status
TransportAnswers == \E s \in StatusCodes : Attempt(TRUE, s, OKText, "None")

\* the connection fails
TransportDrops == Attempt(FALSE, 0, << >>, "requests.exceptions.ConnectionError")

NextProvision ==
    \/ CreateCache
    \/ PutEntry
    \/ GetEntry
    \/ DeleteEntry
    \/ TransportAnswers
    \/ TransportDrops
    \/ Finish

SpecProvision == InitData /\ [][NextProvision]_vars

\* a call is running or has just ended
Called == op # NoOp

\* the transport calls made so far by the operation
Attempts == LET RECURSIVE Sum(_)
                Sum(i) == IF i = 0 THEN 0 ELSE trace[i].call_count + Sum(i - 1)
            IN Sum(Len(trace))

\* the first thing the operation asked the transport for is the existence
\* check of its cache, and nothing else was asked for before that check
\* had made a request
ChecksFirst ==
    /\ trace # << >>
    /\ trace[1].helper = "_cache_exists_with_retry"
    /\ trace[1].method = "GET"
    /\ Len(trace) > 1 => trace[1].call_count >= 1

----------------------------------------------------------------------------
(***************************************************************************)
(* One call of create_cache, put, get or delete, from its start to its     *)
(* end.  Every call of requests.get, post, put and delete passes a         *)
(* timeout, so the transport ends each of them, with a response or with    *)
(* an exception, and time.sleep returns.  That is weak fairness of the     *)
(* transport step, WF_vars(TransportAnswers \/ TransportDrops), written    *)
(* out: the step is enabled exactly while a retry helper is running, and   *)
(* it is the step that adds to the trace of a running helper.             *)
(***************************************************************************)
\* the call of requests.<method> that a running helper is in has ended
TransportEnds == local.helper # "none" /\ trace' # trace

TransportFair == []<>(local.helper = "none") \/ []<><<TransportEnds>>_vars

NextOneCall ==
    \/ CreateCache
    \/ PutEntry
    \/ GetEntry
    \/ DeleteEntry
    \/ TransportAnswers
    \/ TransportDrops

SpecOneCall == InitData /\ [][NextOneCall]_vars /\ TransportFair

\* the number of retry helpers an operation can go through: put has two
\* existence checks, the create POST and the PUT; create_cache has the
\* existence check and the POST; get and delete have the existence check
\* and the request for the key
Budget(fn) == IF fn = "put" THEN 4 ELSE 2

\* C39: with max_retries >= 0 every call of create_cache, put, get and
\* delete ends, whatever the transport answers: put makes at most
\* 4 * (max_retries + 1) transport calls, and create_cache, get and delete
\* make at most 2 * (max_retries + 1) each.
C39_Terminates ==
    /\ [](Called =>
            /\ Len(trace) <= Budget(op.fn)
            /\ \A i \in 1..Len(trace) : trace[i].call_count <= policy.max_retries + 1
            /\ Attempts <= Budget(op.fn) * (policy.max_retries + 1))
    /\ (Called ~> Over)

\* a put has ended after every one of its four requests was tried
\* max_retries + 1 times, with at least one retry each
C39_Witness ==
    /\ op.fn = "put"
    /\ Over
    /\ policy.max_retries >= 1
    /\ Attempts = 4 * (policy.max_retries + 1)

\* the cache of the running call has settings
Configured == ~IsFalsy(get_cache_config(op.cache_name))

\* C37: create_cache and put do not look at "enabled": for every cache with
\* settings, enabled or not, that the existence check finds absent,
\* create_cache sends the create POST and returns True exactly when it is
\* answered with 200 or 201; put, after a second absent check, sends the
\* POST too, and when that is answered with 200 or 201 it sends its PUT and
\* returns what the status of the PUT says.
C37_EnabledFlagIgnored ==
    (Called /\ Configured) =>
        /\ op.fn = "create_cache" => ChecksFirst
        /\ (op.fn = "put" /\ ExistsFalse) =>
                (Len(trace) >= 2 /\ trace[2].helper = "_cache_exists_with_retry")
        /\ (op.fn = "create_cache" /\ ExistsFalse) =>
                /\ Len(trace) = 2
                /\ trace[2].method = "POST"
                /\ Over => (result = Return(TRUE) <=> Answered(2, {200, 201}))
        /\ (op.fn = "put" /\ ExistsFalse /\ Refused(2, {200})) =>
                /\ Len(trace) >= 3
                /\ trace[3].method = "POST"
                /\ Answered(3, {200, 201}) =>
                        /\ Len(trace) = 4
                        /\ trace[4].method = "PUT"
                        /\ op.cache_name \in server.caches
                        /\ Over => result = Return(Answered(4, {200, 201, 204}))

\* a put into the cache with "enabled": false, absent at both checks, has
\* created the cache, written the entry and returned True
C37_Witness ==
    /\ op = [fn |-> "put", cache_name |-> "disabled-cache"]
    /\ ~is_cache_enabled(op.cache_name)
    /\ Answered(1, {404})
    /\ Answered(2, {404})
    /\ Answered(3, {201})
    /\ Answered(4, {204})
    /\ server.entry.cache_name = "disabled-cache"
    /\ result = Return(TRUE)

----------------------------------------------------------------------------
(***************************************************************************)
(* Provisioning inside put, on the data operations of one client.          *)
(***************************************************************************)
\* the i-th helper invocation is an existence check
IsCheck(i) == Len(trace) >= i /\ trace[i].helper = "_cache_exists_with_retry"

\* json.dumps has an encoding for the value put
Encodable == serialize_value(arg.value).ok

\* C34: a put whose existence check is false checks again inside
\* create_cache before any create POST: a POST is always the third request,
\* after two existence checks that did not return 200.  When the second
\* check returns 200 no POST is made, and put goes on: to its PUT, as the
\* third request, for a value that can be encoded.
C34_SecondCheckBeforePost ==
    op.fn = "put" =>
        /\ \A i \in Requests("POST") :
                /\ i = 3
                /\ IsCheck(1) /\ Refused(1, {200})
                /\ IsCheck(2) /\ Refused(2, {200})
        /\ (ExistsFalse /\ IsCheck(2) /\ Answered(2, {200})) =>
                /\ Requests("POST") = {}
                /\ Encodable => (Len(trace) = 3 /\ trace[3].method = "PUT")
                /\ ~Encodable => (Len(trace) = 2 /\ result = Return(FALSE))

\* a put found the cache absent, then present at the check of create_cache,
\* and has had its PUT accepted without any POST
C34_Witness ==
    /\ op = [fn |-> "put", cache_name |-> "test-cache"]
    /\ Answered(1, {404})
    /\ Answered(2, {200})
    /\ Len(trace) = 3
    /\ trace[3].method = "PUT"
    /\ Answered(3, {204})
    /\ Requests("POST") = {}
    /\ result = Return(TRUE)

\* the create POST of the running put was answered with 200 or 201
PostAccepted == Len(trace) >= 3 /\ trace[3].method = "POST" /\ Answered(3, {200, 201})

\* the put did not get its entry stored: the value has no encoding, or the
\* PUT was refused or failed at every attempt
WriteFailed ==
    \/ ~Encodable
    \/ Len(trace) = 4 /\ Refused(4, {200, 201, 204})

\* C35: a put changes the set of caches on the server only by a create POST
\* answered with 200 or 201, so a put whose provisioning failed leaves the
\* set as it was; a put whose POST was accepted and whose encoding or PUT
\* then failed returns False, and the cache it created is still there.
C35_FailedPutMayLeaveCache ==
    /\ []((op.fn = "put" /\ PostAccepted /\ WriteFailed) =>
            /\ Over
            /\ result = Return(FALSE)
            /\ op.cache_name \in server.caches)
    /\ [][(op.fn = "put" /\ server'.caches # server.caches) =>
            /\ PostAccepted'
            /\ ~PostAccepted
            /\ server'.caches = server.caches \cup {op.cache_name}]_vars

\* a put has created the cache, seen its PUT refused, and returned False
C35_Witness ==
    /\ op = [fn |-> "put", cache_name |-> "test-cache"]
    /\ Encodable
    /\ Answered(3, {201})
    /\ Answered(4, {500})
    /\ result = Return(FALSE)
    /\ server.caches = {"test-cache"}
    /\ ~server.entry.present

\* C36: put looks up the settings of the cache only after a false existence
\* check.  For a cache without settings, a check answered with 200 lets put
\* send its PUT and return True when the PUT is accepted; a false check
\* ends the put with False right after that one request, without POST and
\* without PUT.
C36_ConfigOnlyWhenAbsent ==
    (op.fn = "put" /\ IsFalsy(get_cache_config(op.cache_name))) =>
        /\ (Answered(1, {200}) /\ Encodable) =>
                /\ Len(trace) = 2
                /\ trace[2].method = "PUT"
                /\ Over => result = Return(Answered(2, {200, 201, 204}))
        /\ ExistsFalse =>
                /\ Len(trace) = 1
                /\ Over
                /\ result = Return(FALSE)
        /\ Requests("POST") = {}

\* a put into a cache without settings has returned True
C36_Witness ==
    /\ op = [fn |-> "put", cache_name |-> "ghost-cache"]
    /\ get_cache_config("ghost-cache") = {}
    /\ Answered(1, {200})
    /\ Len(trace) = 2
    /\ trace[2].method = "PUT"
    /\ Answered(2, {204})
    /\ result = Return(TRUE)

----------------------------------------------------------------------------
(***************************************************************************)
(* A server that answers from the caches it holds: the existence GET with  *)
(* 200 for a cache it has and 404 for one it has not; the create POST      *)
(* with 200 or 201, or with a refusal; the PUT of an entry with 200 or     *)
(* 204 or a refusal for a cache it has, and with 404 for one it has not.   *)
(***************************************************************************)
ServerStatuses(srv, helper, cache_name) ==
    CASE helper = "_cache_exists_with_retry" ->
            IF cache_name \in srv.caches THEN {200} ELSE {404}
      [] helper = "_create_cache_with_retry" ->
            IF cache_name \in srv.caches THEN {200, 500} ELSE {200, 201, 500}
      [] helper = "_put_with_retry" ->
            IF cache_name \in srv.caches THEN {200, 204, 500} ELSE {404}
      [] OTHER -> StatusCodes

(***************************************************************************)
(* create_cache called again and again by one client for one cache with    *)
(* settings, against that server.  Here trace keeps the helper invocations *)
(* of all the calls made so far.                                           *)
(***************************************************************************)
\* how many calls of create_cache a caller makes
MaxCalls == 2

CreatedNames == {"test-cache", "disabled-cache"}

\* the calls of create_cache made so far: each starts with one existence check
Calls == Cardinality(Requests("GET"))

CreateAgain ==
    \E n \in CreatedNames :
        /\ op.fn = "none"
        /\ op.cache_name \in {"none", n}
        /\ Calls < MaxCalls
        /\ LET t == Invoke("create_cache", n, << >>)
           IN /\ op' = [fn |-> "create_cache", cache_name |-> n]
              /\ stack' = t.stack
              /\ result' = t.result
              /\ local' = StartLocal(t.helper)
              /\ trace' = Append(trace, NewInvocation(t.helper))
        /\ UNCHANGED <<policy, arg, server>>

\* the server answers the request of the running helper
ServerAnswers ==
    \E s \in ServerStatuses(server, local.helper, Target) : Attempt(TRUE, s, OKText, "None")

\* create_cache has returned or raised; the caller may call it again
ReturnToCaller ==
    /\ op.fn = "create_cache"
    /\ result.kind # "none"
    /\ op' = [op EXCEPT !.fn = "none"]
    /\ result' = NoResult
    /\ UNCHANGED <<policy, stack, local, trace, arg, server>>

NextCreates ==
    \/ CreateAgain
    \/ ServerAnswers
    \/ TransportDrops
    \/ ReturnToCaller

SpecCreates == InitData /\ [][NextCreates]_vars

\* no request made so far has failed at transport level
Reachable == \A i \in 1..Len(trace) : trace[i].failures = 0

\* every create POST answered so far was answered with 200 or 201
PostsAccepted ==
    \A i \in Requests("POST") : Ended(trace[i]) => Answered(i, {200, 201})

\* what repeated calls of create_cache come to: at most one POST over all
\* the calls, every call that has ended has returned True, and after the
\* first call the server has the cache
Converges ==
    /\ Cardinality(Requests("POST")) <= 1
    /\ Over => result = Return(TRUE)
    /\ (Over \/ Calls > 1) => server.caches = {op.cache_name}

----------------------------------------------------------------------------
(***************************************************************************)
(* Two clients, each its own CacheCreator and CacheOperations object,      *)
(* against one server that answers from the caches it holds.  Each client  *)
(* makes one call, create_cache or put, and the calls interleave at the    *)
(* transport calls.  Here op, stack, local, trace and result hold one      *)
(* value per client; the value put is the same for both.                   *)
(***************************************************************************)
Clients == {"first", "second"}

\* the other client
Other(c) == CHOOSE d \in Clients : d # c

\* the cache both clients work on
SharedCache == "test-cache"

\* the retry settings of the clients: the defaults, without and with one retry
ClientPolicies == {[DefaultPolicy EXCEPT !.max_retries = r] : r \in {0, 1}}

InitClients ==
    /\ policy \in ClientPolicies
    /\ op = [c \in Clients |-> NoOp]
    /\ stack = [c \in Clients |-> << >>]
    /\ local = [c \in Clients |-> NoLocal]
    /\ trace = [c \in Clients |-> << >>]
    /\ result = [c \in Clients |-> NoResult]
    /\ \E i \in 1..Len(PutValues) : arg = ValueArg(PutValues[i])
    /\ server = NoServer

\* client c calls fn(cache_name)
ClientCall(c, fn, cache_name) ==
    /\ op[c] = NoOp
    /\ LET t == Invoke(fn, cache_name, << >>)
       IN /\ op' = [op EXCEPT ![c] = [fn |-> fn, cache_name |-> cache_name]]
          /\ stack' = [stack EXCEPT ![c] = t.stack]
          /\ result' = [result EXCEPT ![c] = t.result]
          /\ local' = [local EXCEPT ![c] = StartLocal(t.helper)]
          /\ trace' = [trace EXCEPT ![c] = <<NewInvocation(t.helper)>>]
    /\ UNCHANGED <<policy, arg, server>>

\* one transport call of the helper client c is running: the server answers
\* with the status given (ok), or the connection fails
ClientAttempt(c, ok, status) ==
    /\ local[c].helper # "none"
    /\ LET o == IF ok THEN Responds(status, OKText)
                ELSE Fails("requests.exceptions.ConnectionError")
           h == helper_attempt(local[c], o)
           t == [trace[c] EXCEPT ![Len(trace[c])] = Recorded(@, o, h)]
       IN IF h.exit = "continue"
          THEN /\ local' = [local EXCEPT ![c] = h.local]
               /\ trace' = [trace EXCEPT ![c] = t]
               /\ UNCHANGED <<stack, result, server>>
          ELSE LET r == Resume(stack[c],
                               IF h.exit = "return" THEN Return(h.val) ELSE Raise(h.val))
               IN /\ stack' = [stack EXCEPT ![c] = r.stack]
                  /\ result' = [result EXCEPT ![c] = r.result]
                  /\ local' = [local EXCEPT ![c] =
                                    IF r.helper = "none" THEN NoLocal
                                    ELSE StartLocal(r.helper)]
                  /\ trace' = [trace EXCEPT ![c] =
                                    IF r.helper = "none" THEN t
                                    ELSE Append(t, NewInvocation(r.helper))]
                  /\ server' = ServerAfter(server, local[c].helper,
                                           Last(stack[c]).cache_name, o,
                                           IF op[c].fn = "put"
                                           THEN serialize_value(arg.value).val
                                           ELSE << >>,
                                           arg.value)
    /\ UNCHANGED <<policy, op, arg>>

ClientCreates == \E c \in Clients : ClientCall(c, "create_cache", SharedCache)
ClientPuts == \E c \in Clients : ClientCall(c, "put", SharedCache)
ClientAnswered ==
    \E c \in Clients :
        /\ local[c].helper # "none"
        /\ \E s \in ServerStatuses(server, local[c].helper, Last(stack[c]).cache_name) :
                ClientAttempt(c, TRUE, s)
ClientDropped == \E c \in Clients : ClientAttempt(c, FALSE, 0)

NextClients ==
    \/ ClientCreates
    \/ ClientPuts
    \/ ClientAnswered
    \/ ClientDropped

SpecClients == InitClients /\ [][NextClients]_vars

\* the i-th helper invocation of client c got one of the statuses
Got(c, i, statuses) ==
    /\ Len(trace[c]) >= i
    /\ trace[c][i].last_call.ok
    /\ trace[c][i].last_call.status_code \in statuses

\* the i-th helper invocation of client c is over without one of the statuses
Missed(c, i, statuses) ==
    /\ Len(trace[c]) >= i
    /\ Ended(trace[c][i])
    /\ ~Got(c, i, statuses)

\* the existence checks of the call before its create POST: one in
\* create_cache, two in put
Checks(c) == IF op[c].fn = "put" THEN 2 ELSE 1

\* every existence check of the call of client c came out false
SawAbsent(c) == op[c] # NoOp /\ \A i \in 1..Checks(c) : Missed(c, i, {200})

\* client c has gone on to the create POST
Posting(c) ==
    /\ Len(trace[c]) > Checks(c)
    /\ trace[c][Checks(c) + 1].helper = "_create_cache_with_retry"

\* C31: nothing a client keeps or shares holds back a create POST: a client
\* whose existence checks all came out false goes on to the POST, whatever
\* the other client has seen, sent or created meanwhile, and no step of one
\* client changes the frames, the locals or the trace of the other.  So two
\* clients that both saw the cache absent both send the POST.
C31_DuplicateCreatePossible ==
    /\ [](\A c \in Clients : SawAbsent(c) => Posting(c))
    /\ [][\A c \in Clients :
            trace'[c] # trace[c] =>
                /\ trace'[Other(c)] = trace[Other(c)]
                /\ stack'[Other(c)] = stack[Other(c)]
                /\ local'[Other(c)] = local[Other(c)]]_vars

\* both clients were told 404 by every existence check, both have sent the
\* create POST for the same cache, and the server has accepted both
C31_Witness ==
    /\ op["first"].fn = "create_cache"
    /\ op["second"].fn = "put"
    /\ \A c \in Clients :
            /\ op[c].cache_name = SharedCache
            /\ \A i \in 1..Checks(c) : Got(c, i, {404})
            /\ Posting(c)
            /\ Got(c, Checks(c) + 1, {200, 201})
    /\ SharedCache \in server.caches

\* the create POST of the put of client c was answered, and not with 200 or
\* 201, or failed at every attempt
PostRefused(c) ==
    /\ Len(trace[c]) >= 3
    /\ trace[c][3].helper = "_create_cache_with_retry"
    /\ Missed(c, 3, {200, 201})

\* the put of client c has returned False without sending its PUT although
\* it has a value it can encode
ProvisioningFailed(c) ==
    /\ op[c].fn = "put"
    /\ result[c] = Return(FALSE)
    /\ \A i \in 1..Len(trace[c]) : trace[c][i].method # "PUT"
    /\ serialize_value(arg.value).ok

\* C38: a put whose create POST is answered with a status other than 200
\* and 201 returns False and sends no PUT, also when the cache is on the
\* server by then because another client has created it; and a put fails
\* at provisioning only if no existence check of its own was answered with
\* 200 and no POST of its own with 200 or 201.
C38_LoserPutFails ==
    \A c \in Clients :
        /\ (op[c].fn = "put" /\ PostRefused(c)) =>
                /\ Len(trace[c]) = 3
                /\ result[c] = Return(FALSE)
        /\ ProvisioningFailed(c) =>
                /\ SawAbsent(c)
                /\ ~Got(c, 3, {200, 201})

\* both clients put, both saw the cache absent twice, the first created it,
\* and the second, refused at its POST, returned False without a PUT while
\* the cache is on the server
C38_Witness ==
    /\ \A c \in Clients :
            /\ op[c] = [fn |-> "put", cache_name |-> SharedCache]
            /\ Got(c, 1, {404})
            /\ Got(c, 2, {404})
    /\ Got("first", 3, {201})
    /\ Got("second", 3, {500})
    /\ SharedCache \in server.caches
    /\ ProvisioningFailed("second")

====
